---- MODULE Spec2Model ----
(***************************************************************************)
(* A model of the shared research state store (scripts/state_manager.py)   *)
(* and of the fact-ledger value parser (scripts/fact_ledger.py).           *)
(*                                                                         *)
(* The store is one SQLite database.  Every worker thread owns one         *)
(* connection (threading.local).  Python's sqlite3 module opens a          *)
(* transaction implicitly before INSERT/UPDATE/DELETE only, so a SELECT    *)
(* runs on its own and sees the last committed state; the transaction is   *)
(* committed when the `with self._get_connection()` block is left.  A step *)
(* of the model is therefore one SELECT, or one committed write            *)
(* transaction; the variables hold the committed contents of the tables.   *)
(***************************************************************************)
EXTENDS Integers, Sequences, FiniteSets, TLC

VARIABLES
    nodes,      \* table nodes: node id -> row
    facts,      \* table facts: the rows in id order (AUTOINCREMENT, never deleted)
    entities,   \* table entities: the rows in id order
    aliases,    \* table entity_aliases: the set of its rows
    cooc,       \* table entity_cooccurrence: the rows in id order
    handed,     \* history: for every create_entity that has returned, the session
                \* and name it was called with, the canonical name it resolved
                \* the name to and the id it returned
    pc,         \* per worker: where it stands inside a multi-statement operation
    loc,        \* per worker: the running (or last finished) operation's locals
    obs,        \* per worker: what its last read of the whole graph returned
    sessions,   \* table research_sessions: session id -> row
    changed,    \* per worker: whether total_changes of its connection is > 0
    edges,      \* table entity_edges: the rows in id order
    agents,     \* table agent_heartbeats: agent id -> row
    sources,    \* table fact_sources: the rows in id order
    conflicts,  \* table fact_conflicts: the rows in id order
    client,     \* the MCP client: its server process, is_running and its lock
    _instance,  \* StateManager._instance: the one instance of the class, if made
    handles,    \* per handle variable: what StateManager(db_path) gave it
    databases   \* per database file: whether it exists and the ids of its nodes

vars ==
    <<nodes, facts, entities, aliases, cooc, handed, pc, loc, obs, sessions, changed,
      edges, agents, sources, conflicts, client, _instance, handles, databases>>

nodeTables == <<nodes, obs>>
factTables == <<facts, sources, conflicts>>
entityTables == <<entities, aliases, cooc, handed, edges>>
sessionTables == <<sessions, agents>>
handleTables == <<_instance, handles, databases>>

----------------------------------------------------------------------------
(* Bounds of the model *)

MaxNodes == 3
MaxKeep == 2
MaxDepth == 2
MaxFacts == 3
MaxEntities == 3
MaxCount == 2

NodeIds == 1..MaxNodes
\* parent_id = None
NoParent == 0
\* quality scores, in tenths (3.5, 4.0, 9.0)
Scores == {35, 40, 90}
Workers == {"w1", "w2"}

Min(a, b) == IF a <= b THEN a ELSE b

\* an optional argument: None, or a value
None == [some |-> FALSE]
Some(v) == [some |-> TRUE, v |-> v]

----------------------------------------------------------------------------
(* Metadata: the column meta holds NULL or the JSON text of a dict *)

MetaNull == [null |-> TRUE]
\* a dict: its keys, and the numbers under "extended_depth" and
\* "extended_tokens" (0 is what .get(key, 0) gives when the key is absent)
MetaDict(keys) ==
    [null |-> FALSE, keys |-> keys, extended_depth |-> 0, extended_tokens |-> 0]
\* a caller's meta argument: "None", or the dict "empty" ({}) or "dict" (a
\* dict with a key of the caller's)

\* create_node: json.dumps(meta) if meta else None
CreateMeta(arg) == IF arg = "dict" THEN MetaDict({"user"}) ELSE MetaNull

\* update_node: json.dumps(meta) whenever meta is not None
UpdateMeta(arg) == IF arg = "dict" THEN MetaDict({"user"}) ELSE MetaDict({})

----------------------------------------------------------------------------
(* Rows and queries on the table nodes *)

Exists(id) == id \in DOMAIN nodes

NodeRow(parent, score, depth, meta, created_at) ==
    [parent |-> parent, score |-> score, depth |-> depth,
     status |-> "pending", meta |-> meta, created_at |-> created_at]

\* created_at DEFAULT CURRENT_TIMESTAMP: the second of the insert, which is
\* the second of the latest row stored or a later one
LatestNode(tbl) ==
    IF DOMAIN tbl = {} THEN 0
    ELSE CHOOSE t \in {tbl[i].created_at : i \in DOMAIN tbl} :
            \A i \in DOMAIN tbl : tbl[i].created_at <= t

\* SELECT id FROM nodes WHERE parent_id = ?
ChildrenIn(tbl, parent) == {i \in DOMAIN tbl : tbl[i].parent = parent}

get_children(parent) == ChildrenIn(nodes, parent)

\* every row reached from id along parent_id links, id itself left out unless
\* the links lead back to it
RECURSIVE DescendantsFrom(_, _, _)
DescendantsFrom(tbl, frontier, acc) ==
    LET kids == UNION {ChildrenIn(tbl, x) : x \in frontier} \ acc
    IN IF kids = {} THEN acc ELSE DescendantsFrom(tbl, kids, acc \cup kids)

DescendantsIn(tbl, id) == DescendantsFrom(tbl, {id}, {})

DeleteRows(tbl, ids) == [i \in DOMAIN tbl \ ids |-> tbl[i]]

\* the rows a keep_best_n call ranges over: `if parent_id:` picks the
\* children of the parent, otherwise the whole table
ScopeIn(tbl, parent) ==
    IF parent # NoParent THEN ChildrenIn(tbl, parent) ELSE DOMAIN tbl

\* SELECT id ... ORDER BY score DESC LIMIT n: any n rows of the scope that no
\* row left out outscores (SQL leaves the order of equal scores open)
TopN(tbl, scope, n) ==
    {K \in SUBSET scope :
        /\ Cardinality(K) = Min(n, Cardinality(scope))
        /\ \A k \in K : \A o \in scope \ K : tbl[k].score >= tbl[o].score}

----------------------------------------------------------------------------
(* Value strings and numbers.  A value string is the sequence of its       *)
(* characters.  A Python float is kept as the decimal n * 10^e it was      *)
(* written as (e <= 0, no trailing zero in n), which the parser's          *)
(* arithmetic (division by 1000 and by 10^6) keeps exact.                  *)

Digits == {"0", "1", "2", "3", "4", "5", "6", "7", "8", "9"}
DigitVal ==
    ("0" :> 0) @@ ("1" :> 1) @@ ("2" :> 2) @@ ("3" :> 3) @@ ("4" :> 4) @@
    ("5" :> 5) @@ ("6" :> 6) @@ ("7" :> 7) @@ ("8" :> 8) @@ ("9" :> 9)
\* the class [\d,.]
NumChars == Digits \cup {",", "."}
\* the class \s
Spaces == {" "}
UpperCase == <<"A", "B", "C", "D", "E", "F", "G", "H", "I", "J", "K", "L", "M",
               "N", "O", "P", "Q", "R", "S", "T", "U", "V", "W", "X", "Y", "Z">>
LowerCase == <<"a", "b", "c", "d", "e", "f", "g", "h", "i", "j", "k", "l", "m",
               "n", "o", "p", "q", "r", "s", "t", "u", "v", "w", "x", "y", "z">>

\* re.IGNORECASE: letters are compared in lower case
Lower(c) ==
    IF \E i \in 1..26 : UpperCase[i] = c
    THEN LowerCase[CHOOSE i \in 1..26 : UpperCase[i] = c]
    ELSE c

LowerAll(s) == [i \in 1..Len(s) |-> Lower(s[i])]

RECURSIVE Pow10(_)
Pow10(k) == IF k = 0 THEN 1 ELSE 10 * Pow10(k - 1)

RECURSIVE Dec(_, _)
Dec(n, e) ==
    IF n = 0 THEN [n |-> 0, e |-> 0]
    ELSE IF e < 0 /\ n % 10 = 0 THEN Dec(n \div 10, e + 1)
    ELSE [n |-> n, e |-> e]

\* the integer that stands for d at the scale 10^e
AtScale(d, e) == d.n * Pow10(d.e - e)
DecLeq(a, b) == AtScale(a, Min(a.e, b.e)) <= AtScale(b, Min(a.e, b.e))

\* value.strip()
RECURSIVE strip(_)
strip(s) ==
    IF s # << >> /\ s[1] \in Spaces THEN strip(Tail(s))
    ELSE IF s # << >> /\ s[Len(s)] \in Spaces THEN strip(SubSeq(s, 1, Len(s) - 1))
    ELSE s

\* the length of the longest run of characters of class C that starts at s[i]
RECURSIVE RunLen(_, _, _)
RunLen(s, i, C) ==
    IF i <= Len(s) /\ s[i] \in C THEN 1 + RunLen(s, i + 1, C) ELSE 0

RECURSIVE DigitsToInt(_)
DigitsToInt(s) ==
    IF s = << >> THEN 0
    ELSE 10 * DigitsToInt(SubSeq(s, 1, Len(s) - 1)) + DigitVal[s[Len(s)]]

\* float(num_str.replace(",", "")) for a string of [\d,.]: ValueError unless
\* at least one digit and at most one point are left
float(numstr) ==
    LET t == SelectSeq(numstr, LAMBDA c : c # ",")
        ds == SelectSeq(t, LAMBDA c : c \in Digits)
        points == Len(t) - Len(ds)
        dot == CHOOSE i \in 1..(Len(t) + 1) : i = Len(t) + 1 \/ t[i] = "."
        frac == IF points = 1 THEN Len(t) - dot ELSE 0
    IN IF Len(ds) >= 1 /\ points <= 1
       THEN [ok |-> TRUE, v |-> Dec(DigitsToInt(ds), 0 - frac)]
       ELSE [ok |-> FALSE]

SuffixBillion == {<<"b">>, <<"b", "i", "l", "l", "i", "o", "n">>}
SuffixMillion == {<<"m">>, <<"m", "i", "l", "l", "i", "o", "n">>}
SuffixThousand == {<<"k">>, <<"t", "h", "o", "u", "s", "a", "n", "d">>}
SuffixTrillion == {<<"t">>, <<"t", "r", "i", "l", "l", "i", "o", "n">>}
MonthNames ==
    {<<"j", "a", "n", "u", "a", "r", "y">>,
     <<"f", "e", "b", "r", "u", "a", "r", "y">>,
     <<"m", "a", "r", "c", "h">>,
     <<"a", "p", "r", "i", "l">>,
     <<"m", "a", "y">>,
     <<"j", "u", "n", "e">>,
     <<"j", "u", "l", "y">>,
     <<"a", "u", "g", "u", "s", "t">>,
     <<"s", "e", "p", "t", "e", "m", "b", "e", "r">>,
     <<"o", "c", "t", "o", "b", "e", "r">>,
     <<"n", "o", "v", "e", "m", "b", "e", "r">>,
     <<"d", "e", "c", "e", "m", "b", "e", "r">>}

ParseResult(numeric, value_type, unit) ==
    [numeric |-> numeric, value_type |-> value_type, unit |-> unit]

\* ^\$?([\d,.]+)\s*(B|billion|M|million|K|thousand|T|trillion)?$
CurrencyMatch(v) ==
    LET i0 == IF v # << >> /\ v[1] = "$" THEN 2 ELSE 1
        k == RunLen(v, i0, NumChars)
        j == i0 + k + RunLen(v, i0 + k, Spaces)
        rest == LowerAll(SubSeq(v, j, Len(v)))
    IN [ok |-> k >= 1 /\ (rest = << >> \/ rest \in SuffixBillion \cup SuffixMillion
                                                \cup SuffixThousand \cup SuffixTrillion),
        num |-> SubSeq(v, i0, i0 + k - 1),
        suffix |-> rest]

\* the multiplier chain: `if multiplier >= 1e9` is tried first, so it takes
\* billions and trillions alike and the trillion branch is never reached
CurrencyNumeric(x, suffix) ==
    LET multiplier == IF suffix \in SuffixBillion THEN 9
                      ELSE IF suffix \in SuffixMillion THEN 6
                      ELSE IF suffix \in SuffixThousand THEN 3
                      ELSE IF suffix \in SuffixTrillion THEN 12
                      ELSE 0
    IN IF multiplier >= 9 THEN x
       ELSE IF multiplier = 6 THEN Dec(x.n, x.e - 3)
       ELSE IF multiplier = 3 THEN Dec(x.n, x.e - 6)
       ELSE IF multiplier = 12 THEN Dec(x.n * 1000, x.e)
       ELSE x

CurrencyUnit(suffix) ==
    IF suffix \in SuffixBillion THEN "USD billion"
    ELSE IF suffix \in SuffixMillion THEN "USD million"
    ELSE IF suffix \in SuffixThousand THEN "USD thousand"
    ELSE IF suffix \in SuffixTrillion THEN "USD trillion"
    ELSE "USD"

\* ^([\d,.]+)\s*%$
PercentMatch(v) ==
    LET k == RunLen(v, 1, NumChars)
        j == 1 + k + RunLen(v, 1 + k, Spaces)
    IN [ok |-> k >= 1 /\ j = Len(v) /\ v[j] = "%", num |-> SubSeq(v, 1, k)]

\* ^\d{4}-\d{2}-\d{2}$, ^\d{4}$ and ^(January|...|December)\s+\d{1,2},?\s+\d{4}$
DateMatch(v) ==
    \/ /\ Len(v) = 10
       /\ \A i \in {1, 2, 3, 4, 6, 7, 9, 10} : v[i] \in Digits
       /\ v[5] = "-" /\ v[8] = "-"
    \/ Len(v) = 4 /\ \A i \in 1..4 : v[i] \in Digits
    \/ \E m \in 1..Len(v) :
         /\ LowerAll(SubSeq(v, 1, m)) \in MonthNames
         /\ LET s1 == RunLen(v, m + 1, Spaces)
                d == RunLen(v, m + 1 + s1, Digits)
                afterDay == m + 1 + s1 + d
            IN /\ s1 >= 1
               /\ d >= 1
               \* \d{1,2} may stop after one or two digits; what follows
               \* must then be ,?\s+\d{4}$
               /\ \E dd \in {1, 2} :
                    /\ dd <= d
                    /\ LET c == m + 1 + s1 + dd
                           c2 == IF c <= Len(v) /\ v[c] = "," THEN c + 1 ELSE c
                           s2 == RunLen(v, c2, Spaces)
                       IN /\ s2 >= 1
                          /\ RunLen(v, c2 + s2, Digits) = 4
                          /\ c2 + s2 + 3 = Len(v)

\* ^([\d,.]+)$
PlainMatch(v) == v # << >> /\ RunLen(v, 1, NumChars) = Len(v)

parse_value(value) ==
    LET v == strip(value)
        cur == CurrencyMatch(v)
        pct == PercentMatch(v)
    IN IF cur.ok /\ float(cur.num).ok
       THEN ParseResult(Some(CurrencyNumeric(float(cur.num).v, cur.suffix)),
                        "currency", Some(CurrencyUnit(cur.suffix)))
       ELSE IF pct.ok /\ float(pct.num).ok
       THEN ParseResult(Some(float(pct.num).v), "percentage", Some("percent"))
       ELSE IF DateMatch(v)
       THEN ParseResult(None, "date", None)
       ELSE IF PlainMatch(v) /\ float(v).ok
       THEN ParseResult(Some(float(v).v), "number", None)
       ELSE ParseResult(None, "text", None)

----------------------------------------------------------------------------
(* Worker-local state *)

IdleLoc ==
    [op |-> "none", node |-> 0, n |-> 0, parent |-> NoParent,
     keep |-> {}, gone |-> {}, pre |-> [i \in {} |-> 0], out |-> "none",
     meta |-> MetaNull, todo |-> {}, seen |-> {}, desc |-> {},
     sess |-> "", id |-> 0, batch |-> << >>, ret |-> {},
     name |-> "", canonical |-> "", a |-> 0, b |-> 0, context |-> "",
     existing |-> 0, rows |-> << >>, args |-> << >>,
     should_break |-> FALSE, children |-> << >>, affected |-> << >>,
     sum_depth |-> 0, sum_tokens |-> 0, log |-> << >>,
     results |-> << >>, depth |-> 0, report |-> None]

\* MCPClientV2.__init__ has returned: _start_server has started the server
\* process and its health check has passed; nobody holds the lock
\* the handle variables of a process, the database files they may name
\* (the last one is the default, Path.cwd() / ".research_state.db"), and a
\* file that does not exist
Handles == {"sm1", "sm2"}
DefaultDb == ".research_state.db"
DbPaths == {"a.db", "b.db", DefaultDb}
NoFile == [exists |-> FALSE, nodes |-> {}]

NoThread == ""
StartedClient == [process |-> "alive", is_running |-> TRUE, lock |-> NoThread]

\* of a read of the whole graph, the nodes that a circuit break of another
\* worker, under way at that moment, had marked circuit_broken while children
\* they had when it began were still among the rows read
NoObs == {}

Init ==
    /\ nodes = [i \in {} |-> 0]
    /\ facts = << >>
    /\ entities = << >>
    /\ aliases = {}
    /\ cooc = << >>
    /\ handed = {}
    /\ pc = [w \in Workers |-> "idle"]
    /\ loc = [w \in Workers |-> IdleLoc]
    /\ obs = [w \in Workers |-> NoObs]
    /\ sessions = [i \in {} |-> 0]
    /\ changed = [w \in Workers |-> FALSE]
    /\ edges = << >>
    /\ agents = [i \in {} |-> 0]
    /\ sources = << >>
    /\ conflicts = << >>
    /\ client = StartedClient
    /\ _instance = None
    /\ handles = [h \in Handles |-> None]
    /\ databases = [p \in DbPaths |-> NoFile]

\* sqlite3's total_changes: the rows that the statements of a connection
\* have inserted, updated or deleted since it was opened
Counted(w, rows) == changed' = [changed EXCEPT ![w] = @ \/ rows > 0]

----------------------------------------------------------------------------
(* create_node: one INSERT; a duplicate id raises IntegrityError, the      *)
(* transaction is rolled back and False is returned                        *)

create_node(w, id, parent, score, depth, meta, tick) ==
    /\ pc[w] = "idle"
    /\ nodes' = IF Exists(id) THEN nodes
                ELSE nodes @@ (id :> NodeRow(parent, score, depth, CreateMeta(meta),
                                             LatestNode(nodes) + tick))
    /\ loc' = [loc EXCEPT ![w] = [IdleLoc EXCEPT !.op = "create_node",
                                  !.node = id,
                                  !.out = IF Exists(id) THEN "false" ELSE "true"]]
    /\ Counted(w, IF Exists(id) THEN 0 ELSE 1)
    /\ UNCHANGED <<client, handleTables, pc, obs, factTables, entityTables, sessionTables>>

----------------------------------------------------------------------------
(* Sessions.  create_session: one INSERT, a duplicate session_id raises    *)
(* IntegrityError and False is returned.  complete_session: one UPDATE,    *)
(* and `return conn.total_changes > 0`.                                    *)

SessionRow(topic, meta) ==
    [topic |-> topic, status |-> "active", completed_at |-> None, meta |-> meta]

\* CURRENT_TIMESTAMP counts seconds and never goes back: the latest
\* completed_at that is stored, or 0
LatestCompleted(tbl) ==
    LET stamps == {tbl[s].completed_at.v :
                     s \in {x \in DOMAIN tbl : tbl[x].completed_at.some}}
    IN IF stamps = {} THEN 0 ELSE CHOOSE t \in stamps : \A u \in stamps : u <= t

\* a creator that does not look for the row and answers True
NeverStored(tbl, id) == FALSE

Stored(tbl, id) == id \in DOMAIN tbl

create_session(w, session_id, topic, meta) ==
    /\ pc[w] = "idle"
    /\ sessions' = IF Stored(sessions, session_id) THEN sessions
                   ELSE sessions @@ (session_id :> SessionRow(topic, CreateMeta(meta)))
    /\ loc' = [loc EXCEPT ![w] = [IdleLoc EXCEPT
                    !.op = "create_session", !.sess = session_id,
                    !.out = IF Stored(sessions, session_id) THEN "false" ELSE "true"]]
    /\ Counted(w, IF Stored(sessions, session_id) THEN 0 ELSE 1)
    /\ UNCHANGED <<client, handleTables, pc, nodeTables, factTables, entityTables, agents>>

complete_session(w, session_id, tick) ==
    /\ pc[w] = "idle"
    /\ sessions' = IF Stored(sessions, session_id)
                   THEN [sessions EXCEPT ![session_id].status = "completed",
                                         ![session_id].completed_at =
                                             Some(LatestCompleted(sessions) + tick)]
                   ELSE sessions
    /\ LET rows == IF Stored(sessions, session_id) THEN 1 ELSE 0
       IN /\ Counted(w, rows)
          /\ loc' = [loc EXCEPT ![w] = [IdleLoc EXCEPT
                        !.op = "complete_session", !.sess = session_id,
                        !.out = IF changed[w] \/ rows > 0 THEN "true" ELSE "false"]]
    /\ UNCHANGED <<client, handleTables, pc, nodeTables, factTables, entityTables, agents>>

----------------------------------------------------------------------------
(* update_node: one UPDATE of the columns given; no column given returns   *)
(* False before the store is touched.  An absent id updates no row.        *)

UpdateRow(tbl, id, score, status, meta) ==
    IF id \notin DOMAIN tbl THEN tbl
    ELSE [tbl EXCEPT ![id] = [@ EXCEPT
            !.score = IF score.some THEN score.v ELSE @,
            !.status = IF status.some THEN status.v ELSE @,
            !.meta = IF meta.some THEN meta.v ELSE @]]

update_node(w, id, content, score, status, meta) ==
    /\ pc[w] = "idle"
    /\ nodes' = IF ~content.some /\ ~score.some /\ ~status.some /\ ~meta.some
                THEN nodes
                ELSE UpdateRow(nodes, id, score, status,
                               IF meta.some THEN Some(UpdateMeta(meta.v)) ELSE None)
    \* `if not updates: return False`, else `return conn.total_changes > 0`
    /\ LET updates == content.some \/ score.some \/ status.some \/ meta.some
           rows == IF updates /\ Exists(id) THEN 1 ELSE 0
       IN /\ Counted(w, rows)
          /\ loc' = [loc EXCEPT ![w] = [IdleLoc EXCEPT
                        !.op = "update_node", !.node = id,
                        !.out = IF updates /\ (changed[w] \/ rows > 0)
                                THEN "true" ELSE "false"]]
    /\ UNCHANGED <<client, handleTables, pc, obs, factTables, entityTables, sessionTables>>

----------------------------------------------------------------------------
(* keep_best_n: a SELECT of the ids to keep, then a DELETE of the rest of  *)
(* the scope.  The SELECT opens no transaction, so the DELETE is a second  *)
(* step that works on the table as it is by then.                          *)

keep_best_n_select(w, n, parent) ==
    /\ pc[w] = "idle"
    /\ \E keep \in TopN(nodes, ScopeIn(nodes, parent), n) :
        /\ loc' = [loc EXCEPT ![w] = [IdleLoc EXCEPT
                        !.op = "keep_best_n", !.n = n, !.parent = parent,
                        !.keep = keep, !.pre = nodes,
                        \* if not keep_ids: return 0
                        !.out = IF keep = {} THEN "returned" ELSE "none"]]
        /\ pc' = [pc EXCEPT ![w] = IF keep = {} THEN "idle" ELSE "kbn_delete"]
    /\ UNCHANGED <<client, handleTables, nodes, obs, factTables, entityTables, sessionTables, changed>>

keep_best_n_delete(w) ==
    /\ pc[w] = "kbn_delete"
    /\ LET gone == ScopeIn(nodes, loc[w].parent) \ loc[w].keep
       IN /\ nodes' = DeleteRows(nodes, gone)
          /\ loc' = [loc EXCEPT ![w].gone = gone, ![w].out = "returned"]
    /\ pc' = [pc EXCEPT ![w] = "idle"]
    /\ Counted(w, Cardinality(ScopeIn(nodes, loc[w].parent) \ loc[w].keep))
    /\ UNCHANGED <<client, handleTables, obs, factTables, entityTables, sessionTables>>

----------------------------------------------------------------------------
(* prune_low_score_nodes: one DELETE of the rows with score < threshold;   *)
(* the rowcount is returned                                                *)

LowScore(tbl, threshold) == {i \in DOMAIN tbl : tbl[i].score < threshold}

prune_low_score_nodes(w, threshold) ==
    /\ pc[w] = "idle"
    /\ nodes' = DeleteRows(nodes, LowScore(nodes, threshold))
    /\ loc' = [loc EXCEPT ![w] = [IdleLoc EXCEPT
                    !.op = "prune_low_score_nodes", !.pre = nodes,
                    !.gone = LowScore(nodes, threshold),
                    !.n = Cardinality(LowScore(nodes, threshold)),
                    !.out = "returned"]]
    /\ Counted(w, Cardinality(LowScore(nodes, threshold)))
    /\ UNCHANGED <<client, handleTables, pc, obs, factTables, entityTables, sessionTables>>

----------------------------------------------------------------------------
(* check_circuit_break: get_children, whose rows come ORDER BY score DESC, *)
(* created_at ASC, then sorted(children, key=created_at), which keeps rows *)
(* of one second in the order they came in, and of that list the last      *)
(* consecutive_threshold rows                                              *)

\* ORDER BY score DESC, created_at ASC
ByScoreThenCreated(tbl, x, y) ==
    \/ tbl[x].score > tbl[y].score
    \/ tbl[x].score = tbl[y].score /\ tbl[x].created_at < tbl[y].created_at

\* the orders in which the SELECT may return the rows ids: no row before one
\* that comes first by the ORDER BY (rows that compare equal come in any order)
Orders(tbl, ids) ==
    {f \in [1..Cardinality(ids) -> ids] :
        /\ \A i \in DOMAIN f, j \in DOMAIN f : f[i] = f[j] => i = j
        /\ \A i \in DOMAIN f, j \in DOMAIN f :
              i < j => ~ByScoreThenCreated(tbl, f[j], f[i])}

\* sorted(children, key=lambda x: x["created_at"]): a stable sort
SortedByCreated(tbl, children) ==
    LET n == Len(children)
        perm == CHOOSE g \in [1..n -> 1..n] :
                  /\ \A i \in 1..n, j \in 1..n : g[i] = g[j] => i = j
                  /\ \A i \in 1..n, j \in 1..n : i < j =>
                        \/ tbl[children[g[i]]].created_at < tbl[children[g[j]]].created_at
                        \/ /\ tbl[children[g[i]]].created_at = tbl[children[g[j]]].created_at
                           /\ g[i] < g[j]
    IN [i \in 1..n |-> children[perm[i]]]

\* children_sorted[-k:], which for k = 0 is the whole list
LastK(seq, k) ==
    IF k = 0 THEN seq ELSE SubSeq(seq, Len(seq) - k + 1, Len(seq))

\* len(children) <= consecutive_threshold in place of <
TooFewOrJust(children, consecutive_threshold) == Len(children) <= consecutive_threshold

\* if len(children) < consecutive_threshold
TooFew(children, consecutive_threshold) == Len(children) < consecutive_threshold

check_circuit_break(w, node_id, consecutive_threshold, score_threshold) ==
    /\ pc[w] = "idle"
    /\ \E children \in Orders(nodes, get_children(node_id)) :
         LET recent_children ==
                 LastK(SortedByCreated(nodes, children), consecutive_threshold)
             all_low == \A i \in DOMAIN recent_children :
                           nodes[recent_children[i]].score < score_threshold
             l == [IdleLoc EXCEPT !.op = "check_circuit_break",
                                  !.node = node_id,
                                  !.n = consecutive_threshold,
                                  !.pre = nodes,
                                  !.children = children]
         IN loc' = [loc EXCEPT ![w] =
                IF TooFew(children, consecutive_threshold)
                THEN [l EXCEPT !.out = "insufficient_data"]
                \* sum(recent_scores) / len(recent_scores) of no scores
                ELSE IF recent_children = << >>
                THEN [l EXCEPT !.out = "raised"]
                ELSE IF all_low
                THEN [l EXCEPT !.out = "consecutive_low_scores",
                               !.should_break = TRUE,
                               !.affected = recent_children]
                ELSE [l EXCEPT !.out = "scores_acceptable"]]
    /\ UNCHANGED <<client, handleTables, nodes, pc, obs, factTables, entityTables, sessionTables, changed>>

----------------------------------------------------------------------------
(* execute_circuit_break: get_node, update_node, _get_all_descendants (one *)
(* get_children SELECT per node reached) and a transaction of DELETEs, each *)
(* under its own `with self._get_connection()`.                            *)

CircuitBreakKeys ==
    {"circuit_broken", "circuit_break_reason", "circuit_break_timestamp"}

\* meta = self.get_node(node_id); current_meta = meta.get("meta", {}): the key
\* is always there, so a NULL column gives None and the item assignment that
\* follows raises TypeError
execute_circuit_break_get(w, id) ==
    /\ pc[w] = "idle"
    /\ LET l == [IdleLoc EXCEPT !.op = "execute_circuit_break", !.node = id,
                                !.pre = nodes]
       IN IF ~Exists(id)
          THEN /\ loc' = [loc EXCEPT ![w] = [l EXCEPT !.todo = {id}]]
               /\ pc' = [pc EXCEPT ![w] = "ecb_collect"]
          ELSE IF nodes[id].meta.null
          THEN /\ loc' = [loc EXCEPT ![w] = [l EXCEPT !.out = "raised"]]
               /\ pc' = pc
          ELSE /\ loc' = [loc EXCEPT ![w] = [l EXCEPT
                            !.meta = [nodes[id].meta EXCEPT !.keys = @ \cup CircuitBreakKeys]]]
               /\ pc' = [pc EXCEPT ![w] = "ecb_update"]
    /\ UNCHANGED <<client, handleTables, nodes, obs, factTables, entityTables, sessionTables, changed>>

\* self.update_node(node_id, status="circuit_broken", meta=current_meta)
execute_circuit_break_update(w) ==
    /\ pc[w] = "ecb_update"
    /\ nodes' = UpdateRow(nodes, loc[w].node, None, Some("circuit_broken"), Some(loc[w].meta))
    /\ loc' = [loc EXCEPT ![w].todo = {loc[w].node}]
    /\ pc' = [pc EXCEPT ![w] = "ecb_collect"]
    /\ Counted(w, IF loc[w].node \in DOMAIN nodes THEN 1 ELSE 0)
    /\ UNCHANGED <<client, handleTables, obs, factTables, entityTables, sessionTables>>

\* _get_all_descendants: get_children of one more node.  The recursion keeps
\* no visited set: reaching a node a second time means it never ends, and
\* Python raises RecursionError.
_get_all_descendants(w) ==
    /\ pc[w] \in {"ecb_collect", "gbh_collect"}
    /\ loc[w].todo # {}
    /\ \E x \in loc[w].todo :
         LET kids == get_children(x)
             seen == loc[w].seen \cup {x}
         IN IF kids \cap seen # {}
            THEN /\ loc' = [loc EXCEPT ![w].out = "raised", ![w].todo = {}]
                 /\ pc' = [pc EXCEPT ![w] = "idle"]
            ELSE /\ loc' = [loc EXCEPT ![w].seen = seen,
                                        ![w].desc = @ \cup kids,
                                        ![w].todo = (@ \ {x}) \cup kids]
                 /\ pc' = pc
    /\ UNCHANGED <<client, handleTables, nodes, obs, factTables, entityTables, sessionTables, changed>>

\* for desc_id in descendants: DELETE FROM nodes WHERE id = ?
execute_circuit_break_delete(w) ==
    /\ pc[w] = "ecb_collect"
    /\ loc[w].todo = {}
    /\ nodes' = DeleteRows(nodes, loc[w].desc)
    /\ loc' = [loc EXCEPT ![w].gone = loc[w].desc \cap DOMAIN nodes,
                          ![w].out = "returned"]
    /\ pc' = [pc EXCEPT ![w] = "idle"]
    /\ Counted(w, Cardinality(loc[w].desc \cap DOMAIN nodes))
    /\ UNCHANGED <<client, handleTables, obs, factTables, entityTables, sessionTables>>

----------------------------------------------------------------------------
(* extend_branch_budget: get_node (a SELECT in its own transaction), the   *)
(* new metadata computed from the row that was read, then update_node      *)
(* (an UPDATE of the whole column meta in its own transaction).            *)

ExtensionKeys ==
    {"extended_depth", "extended_tokens", "extension_reason",
     "extension_timestamp", "max_depth"}

\* current_meta = node.get("meta") or {}, and the five item assignments
Extended(meta, additional_depth, additional_tokens) ==
    LET current_meta == IF meta.null THEN MetaDict({}) ELSE meta
    IN [current_meta EXCEPT !.keys = @ \cup ExtensionKeys,
                            !.extended_depth = @ + additional_depth,
                            !.extended_tokens = @ + additional_tokens]

\* sum_depth and sum_tokens keep, for the worker, the sums of the
\* additional_depth and additional_tokens of its calls that returned True
extend_branch_budget_get(w, node_id, additional_depth, additional_tokens) ==
    /\ pc[w] = "idle"
    /\ LET l == [IdleLoc EXCEPT !.op = "extend_branch_budget", !.node = node_id,
                                !.a = additional_depth, !.b = additional_tokens,
                                !.sum_depth = loc[w].sum_depth,
                                !.sum_tokens = loc[w].sum_tokens]
       IN IF ~Exists(node_id)
          THEN /\ loc' = [loc EXCEPT ![w] = [l EXCEPT !.out = "false"]]
               /\ pc' = pc
          ELSE /\ loc' = [loc EXCEPT ![w] = [l EXCEPT
                            !.meta = Extended(nodes[node_id].meta,
                                              additional_depth, additional_tokens)]]
               /\ pc' = [pc EXCEPT ![w] = "ebb_update"]
    /\ UNCHANGED <<client, handleTables, nodes, obs, factTables, entityTables, sessionTables, changed>>

\* return self.update_node(node_id, meta=current_meta)
extend_branch_budget_update(w) ==
    /\ pc[w] = "ebb_update"
    /\ nodes' = UpdateRow(nodes, loc[w].node, None, None, Some(loc[w].meta))
    /\ LET rows == IF Exists(loc[w].node) THEN 1 ELSE 0
           ret == changed[w] \/ rows > 0
       IN /\ Counted(w, rows)
          /\ loc' = [loc EXCEPT
                ![w].out = IF ret THEN "true" ELSE "false",
                ![w].sum_depth = IF ret THEN @ + loc[w].a ELSE @,
                ![w].sum_tokens = IF ret THEN @ + loc[w].b ELSE @]
    /\ pc' = [pc EXCEPT ![w] = "idle"]
    /\ UNCHANGED <<client, handleTables, obs, factTables, entityTables, sessionTables>>

\* the workers other than r that have a circuit break under way, begun on a
\* node that was not circuit_broken yet
BusyFor(r) ==
    {w \in Workers \ {r} :
        /\ pc[w] \in {"ecb_update", "ecb_collect"}
        /\ loc[w].node \in DOMAIN loc[w].pre
        /\ loc[w].pre[loc[w].node].status # "circuit_broken"}

HalfBroken(tbl, r) ==
    {loc[w].node : w \in {v \in BusyFor(r) :
        /\ loc[v].node \in DOMAIN tbl
        /\ tbl[loc[v].node].status = "circuit_broken"
        /\ ChildrenIn(tbl, loc[v].node) \cap ChildrenIn(loc[v].pre, loc[v].node) # {}}}

\* export_graph: SELECT * FROM nodes
export_graph(r) ==
    /\ pc[r] = "idle"
    /\ obs' = [obs EXCEPT ![r] = HalfBroken(nodes, r)]
    /\ UNCHANGED <<client, handleTables, nodes, pc, loc, factTables, entityTables, sessionTables, changed>>

----------------------------------------------------------------------------
(* The fact ledger: create_fact is one INSERT.  created_at is the second    *)
(* the row was inserted in: the second of the row before it, or a later one *)

FactRow(session_id, entity, attribute, value, value_type, value_numeric, unit, created_at) ==
    [session_id |-> session_id, entity |-> entity, attribute |-> attribute,
     value |-> value, value_type |-> value_type, value_numeric |-> value_numeric,
     unit |-> unit, created_at |-> created_at]

LastCreated(tbl) == IF tbl = << >> THEN 0 ELSE tbl[Len(tbl)].created_at

create_fact(w, session_id, entity, attribute, value, value_type, value_numeric, unit, tick) ==
    /\ pc[w] = "idle"
    /\ Len(facts) < MaxFacts
    /\ facts' = Append(facts, FactRow(session_id, entity, attribute, value, value_type,
                                      value_numeric, unit, LastCreated(facts) + tick))
    /\ loc' = [loc EXCEPT ![w] = [IdleLoc EXCEPT !.op = "create_fact",
                                  !.id = Len(facts) + 1]]
    /\ Counted(w, 1)
    /\ UNCHANGED <<client, handleTables, pc, nodeTables, sources, conflicts, entityTables, sessionTables>>

(* FactLedger.create_facts_from_json: for every item of the file,          *)
(* parse_value on the item's value, the item's own value_type,             *)
(* value_numeric and unit in place of the parsed ones where it has them,   *)
(* one create_fact, and one add_fact_source where the item has a source.   *)
(* An exception raised for an item is caught, the item is recorded in      *)
(* errors and the loop goes on.                                            *)

Item(entity, attribute, value, value_type, value_numeric, unit) ==
    [entity |-> entity, attribute |-> attribute, value |-> value,
     value_type |-> value_type, value_numeric |-> value_numeric, unit |-> unit]

\* an import that leaves the parsing out and stores create_fact's defaults
ItemRowUnparsed(session_id, fact, created_at) ==
    FactRow(session_id, fact.entity, fact.attribute, fact.value, "text", None, None,
            created_at)

ItemRow(session_id, fact, created_at) ==
    LET parsed == parse_value(fact.value)
    IN FactRow(session_id, fact.entity, fact.attribute, fact.value,
               IF fact.value_type.some THEN fact.value_type.v ELSE parsed.value_type,
               IF fact.value_numeric.some THEN fact.value_numeric.v ELSE parsed.numeric,
               IF fact.unit.some THEN fact.unit.v ELSE parsed.unit,
               created_at)

SourceRow(fact_id, source_url) == [fact_id |-> fact_id, source_url |-> source_url]

\* An item of the file is a record of the keys it has.  An item that is no
\* JSON object has the one key json, an item whose value is a JSON number
\* has the key value_is beside the digits; a source is a record of its url
\* and quality.
Confidences == {"High", "Medium", "Low"}
SourceQualities == {"A", "B", "C", "D", "E"}

\* fact.get on an item that is no dict, or parse_value on a value that is
\* no string, raises AttributeError; a confidence outside the CHECK
\* constraint makes create_fact's INSERT raise IntegrityError
RaisesBeforeInsert(fact) ==
    \/ "json" \in DOMAIN fact
    \/ "value_is" \in DOMAIN fact
    \/ "confidence" \in DOMAIN fact /\ fact.confidence \notin Confidences

\* a source quality outside the CHECK constraint makes add_fact_source's
\* INSERT raise IntegrityError, after the fact has been committed
RaisesAtSource(fact) ==
    "source" \in DOMAIN fact /\ fact.source.quality \notin SourceQualities

\* the loop left at the first exception
NoneAfterError(facts_list) == << >>

\* except Exception: the error is recorded and the loop goes on
RestAfterError(facts_list) == Tail(facts_list)

ImportError(i, fact) == [index |-> i, fact |-> fact]

RECURSIVE Import(_, _, _, _, _)
Import(st, session_id, facts_list, ticks, i) ==
    IF facts_list = << >> THEN st
    ELSE LET fact == Head(facts_list)
             stored == Append(st.facts, ItemRow(session_id, fact,
                                                LastCreated(st.facts) + Head(ticks)))
         IN IF RaisesBeforeInsert(fact)
            THEN Import([st EXCEPT !.errors = Append(@, ImportError(i, fact))],
                        session_id, RestAfterError(facts_list), Tail(ticks), i + 1)
            ELSE IF RaisesAtSource(fact)
            THEN Import([st EXCEPT !.facts = stored,
                                   !.errors = Append(@, ImportError(i, fact))],
                        session_id, RestAfterError(facts_list), Tail(ticks), i + 1)
            ELSE Import([st EXCEPT !.facts = stored,
                                   !.sources =
                                       IF "source" \in DOMAIN fact
                                       THEN Append(@, SourceRow(Len(stored), fact.source.url))
                                       ELSE @,
                                   !.created = @ + 1],
                        session_id, Tail(facts_list), Tail(ticks), i + 1)

create_facts_from_json(w, session_id, facts_list, ticks) ==
    /\ pc[w] = "idle"
    /\ Len(ticks) = Len(facts_list)
    /\ Len(facts) + Len(facts_list) <= MaxFacts
    /\ LET done == Import([facts |-> facts, sources |-> sources, created |-> 0,
                           errors |-> << >>], session_id, facts_list, ticks, 0)
       IN /\ facts' = done.facts
          /\ sources' = done.sources
          /\ loc' = [loc EXCEPT ![w] = [IdleLoc EXCEPT
                        !.op = "create_facts_from_json",
                        !.sess = session_id,
                        !.batch = facts_list,
                        !.id = Len(facts),
                        !.n = Len(facts_list),
                        !.report = Some([created |-> done.created,
                                         total |-> Len(facts_list),
                                         errors |-> done.errors])]]
          /\ Counted(w, Len(done.facts) - Len(facts) + Len(done.sources) - Len(sources))
    /\ UNCHANGED <<client, handleTables, pc, nodeTables, conflicts, entityTables, sessionTables>>

----------------------------------------------------------------------------
(* detect_conflicts: the GROUP BY query, then per group the facts in       *)
(* created_at order, the severity and the conflict type.  The              *)
(* specifications of the fact ledger have one worker, so nothing is        *)
(* written between the SELECTs of one call.                                *)

GroupFacts(tbl, session_id, entity, attribute) ==
    {i \in DOMAIN tbl : /\ tbl[i].session_id = session_id
                        /\ tbl[i].entity = entity
                        /\ tbl[i].attribute = attribute}

\* COUNT(value) in place of COUNT(DISTINCT value)
CountAll(tbl, ids) == Cardinality(ids)

\* COUNT(DISTINCT value)
CountDistinct(tbl, ids) == Cardinality({tbl[i].value : i \in ids})

\* WHERE session_id = ? GROUP BY entity, attribute HAVING value_count > 1
ConflictGroups(tbl, session_id) ==
    {k \in {<<tbl[i].entity, tbl[i].attribute>> :
               i \in {j \in DOMAIN tbl : tbl[j].session_id = session_id}} :
        CountDistinct(tbl, GroupFacts(tbl, session_id, k[1], k[2])) > 1}

\* diff_pct >= pct in place of diff_pct > pct
DiffPctAtLeast(max_val, min_val, pct) ==
    LET e == Min(max_val.e, min_val.e)
    IN (AtScale(max_val, e) - AtScale(min_val, e)) * 100 >= pct * AtScale(max_val, e)

\* diff_pct > pct, for diff_pct = (max_val - min_val) / max_val * 100 and
\* max_val > 0
DiffPctOver(max_val, min_val, pct) ==
    LET e == Min(max_val.e, min_val.e)
    IN (AtScale(max_val, e) - AtScale(min_val, e)) * 100 > pct * AtScale(max_val, e)

Severity(tbl, group_facts) ==
    LET withNumeric == {i \in group_facts : tbl[i].value_numeric.some}
        numeric_values == {tbl[i].value_numeric.v : i \in withNumeric}
        max_val == CHOOSE m \in numeric_values : \A x \in numeric_values : DecLeq(x, m)
        min_val == CHOOSE m \in numeric_values : \A x \in numeric_values : DecLeq(m, x)
    IN IF Cardinality(group_facts) >= 2 /\ Cardinality(withNumeric) >= 2 /\ max_val.n > 0
       THEN IF DiffPctOver(max_val, min_val, 20) THEN "critical"
            ELSE IF DiffPctOver(max_val, min_val, 5) THEN "moderate"
            ELSE "minor"
       ELSE "minor"

\* ORDER BY created_at leaves the order of rows of one second open: the
\* rows any of which may come first
Earliest(tbl, ids) == {i \in ids : \A j \in ids : tbl[i].created_at <= tbl[j].created_at}

\* "numerical" if group_facts[0]["value_numeric"] else "scope": neither
\* NULL nor 0.0
ConflictType(row) ==
    IF row.value_numeric.some /\ row.value_numeric.v.n # 0 THEN "numerical" ELSE "scope"

Conflict(tbl, session_id, k, first) ==
    [entity |-> k[1], attribute |-> k[2],
     facts |-> GroupFacts(tbl, session_id, k[1], k[2]),
     conflict_type |-> ConflictType(tbl[first]),
     severity |-> Severity(tbl, GroupFacts(tbl, session_id, k[1], k[2]))]

detect_conflicts(w, session_id) ==
    /\ pc[w] = "idle"
    /\ \E first \in [ConflictGroups(facts, session_id) -> DOMAIN facts] :
         /\ \A k \in DOMAIN first :
              first[k] \in Earliest(facts, GroupFacts(facts, session_id, k[1], k[2]))
         /\ loc' = [loc EXCEPT ![w] =
                [IdleLoc EXCEPT !.op = "detect_conflicts",
                                !.sess = session_id,
                                !.ret = {Conflict(facts, session_id, k, first[k]) :
                                            k \in DOMAIN first}]]
    /\ UNCHANGED <<client, handleTables, pc, nodeTables, factTables, entityTables, sessionTables, changed>>

----------------------------------------------------------------------------
(* The entity graph.  create_entity: get_canonical_name (a SELECT under    *)
(* its own connection block), the SELECT of the entity of that session and *)
(* canonical name, and the INSERT when there is none.                      *)

\* a lookup that leaves the alias table out
NameItself(tbl, name) == name

\* one lookup in entity_aliases: the canonical_name of the row whose alias
\* is name, else name
get_canonical_name(tbl, name) ==
    LET rows == {r \in tbl : r.alias = name}
    IN IF rows = {} THEN name ELSE (CHOOSE r \in rows : TRUE).canonical_name

EntityRow(session_id, name) == [session_id |-> session_id, name |-> name]

EntitiesNamed(tbl, session_id, name) ==
    {i \in DOMAIN tbl : tbl[i].session_id = session_id /\ tbl[i].name = name}

Handed(l, id) ==
    [session_id |-> l.sess, name |-> l.name, canonical |-> l.canonical, id |-> id]

create_entity_resolve(w, session_id, name) ==
    /\ pc[w] = "idle"
    /\ \/ Len(entities) < MaxEntities
       \/ EntitiesNamed(entities, session_id, get_canonical_name(aliases, name)) # {}
    /\ loc' = [loc EXCEPT ![w] = [IdleLoc EXCEPT !.op = "create_entity",
                                  !.sess = session_id,
                                  !.name = name,
                                  !.canonical = get_canonical_name(aliases, name),
                                  !.n = Len(entities)]]
    /\ pc' = [pc EXCEPT ![w] = "ce_select"]
    /\ UNCHANGED <<client, handleTables, nodeTables, factTables, entityTables, sessionTables, changed>>

\* fetchone() on a SELECT without ORDER BY: any of the rows that match
create_entity_select(w) ==
    /\ pc[w] = "ce_select"
    /\ LET found == EntitiesNamed(entities, loc[w].sess, loc[w].canonical)
       IN IF found # {}
          THEN \E i \in found :
                 /\ loc' = [loc EXCEPT ![w].id = i, ![w].out = "returned"]
                 /\ handed' = handed \cup {Handed(loc[w], i)}
                 /\ pc' = [pc EXCEPT ![w] = "idle"]
          ELSE /\ pc' = [pc EXCEPT ![w] = "ce_insert"]
               /\ UNCHANGED <<client, handleTables, loc, handed>>
    /\ UNCHANGED <<client, handleTables, nodeTables, factTables, entities, aliases, cooc, edges, sessionTables, changed>>

create_entity_insert(w) ==
    /\ pc[w] = "ce_insert"
    /\ entities' = Append(entities, EntityRow(loc[w].sess, loc[w].canonical))
    /\ loc' = [loc EXCEPT ![w].id = Len(entities) + 1, ![w].out = "returned"]
    /\ handed' = handed \cup {Handed(loc[w], Len(entities) + 1)}
    /\ pc' = [pc EXCEPT ![w] = "idle"]
    /\ Counted(w, 1)
    /\ UNCHANGED <<client, handleTables, nodeTables, factTables, aliases, cooc, edges, sessionTables>>

AliasRow(canonical_name, alias) == [canonical_name |-> canonical_name, alias |-> alias]

\* a table without the UNIQUE index on alias
Unregistered(tbl, alias) == FALSE

\* the UNIQUE index on alias: a row with this alias is stored
Registered(tbl, alias) == \E r \in tbl : r.alias = alias

\* one INSERT; a second row for an alias raises IntegrityError, the
\* transaction is rolled back and False is returned
add_entity_alias(w, canonical_name, alias) ==
    /\ pc[w] = "idle"
    /\ aliases' = IF Registered(aliases, alias) THEN aliases
                  ELSE aliases \cup {AliasRow(canonical_name, alias)}
    /\ loc' = [loc EXCEPT ![w] = [IdleLoc EXCEPT !.op = "add_entity_alias",
                                  !.canonical = canonical_name,
                                  !.name = alias,
                                  !.out = IF Registered(aliases, alias)
                                          THEN "false" ELSE "true"]]
    /\ Counted(w, IF Registered(aliases, alias) THEN 0 ELSE 1)
    /\ UNCHANGED <<client, handleTables, pc, nodeTables, factTables, entities, cooc, handed, edges, sessionTables>>

----------------------------------------------------------------------------
(* record_cooccurrence: the arguments put in order, the SELECT of the row  *)
(* of the pair, then the UPDATE of that row or the INSERT of a new one     *)

SnippetLimit == 10

\* the arguments as they come
AsGiven(a, b) == <<a, b>>

\* if entity_a_id > entity_b_id: swap
OrderedPair(a, b) == IF a > b THEN <<b, a>> ELSE <<a, b>>

CoocRow(a, b, count, snippets) ==
    [entity_a_id |-> a, entity_b_id |-> b, cooccurrence_count |-> count,
     context_snippets |-> snippets]

CoocOf(tbl, a, b) ==
    {i \in DOMAIN tbl : tbl[i].entity_a_id = a /\ tbl[i].entity_b_id = b}

\* the snippets kept without a limit
AllSnippets(snippets) == snippets

\* snippets[-10:]
LastSnippets(snippets) ==
    IF Len(snippets) <= SnippetLimit THEN snippets
    ELSE SubSeq(snippets, Len(snippets) - SnippetLimit + 1, Len(snippets))

\* no row of the pair counts max calls yet
CountBelow(tbl, entity_a_id, entity_b_id, max) ==
    LET p == OrderedPair(entity_a_id, entity_b_id)
    IN \A i \in CoocOf(tbl, p[1], p[2]) : tbl[i].cooccurrence_count < max

\* log keeps, for the worker, the contexts of the calls it has made
record_cooccurrence_select(w, entity_a_id, entity_b_id, context) ==
    /\ pc[w] = "idle"
    /\ LET p == OrderedPair(entity_a_id, entity_b_id)
           found == CoocOf(cooc, p[1], p[2])
       IN \E i \in IF found = {} THEN {0} ELSE found :
               loc' = [loc EXCEPT ![w] =
                          [IdleLoc EXCEPT !.op = "record_cooccurrence",
                                          !.args = <<entity_a_id, entity_b_id>>,
                                          !.a = p[1], !.b = p[2],
                                          !.context = context,
                                          !.existing = i,
                                          !.rows = cooc,
                                          !.log = Append(loc[w].log, context)]]
    /\ pc' = [pc EXCEPT ![w] = "rc_write"]
    /\ UNCHANGED <<client, handleTables, nodeTables, factTables, entityTables, sessionTables, changed>>

record_cooccurrence_write(w) ==
    /\ pc[w] = "rc_write"
    /\ cooc' =
         IF loc[w].existing # 0
         THEN [cooc EXCEPT ![loc[w].existing] =
                 [@ EXCEPT !.cooccurrence_count = @ + 1,
                           !.context_snippets =
                               LastSnippets(Append(loc[w].rows[loc[w].existing].context_snippets,
                                                   loc[w].context))]]
         ELSE Append(cooc, CoocRow(loc[w].a, loc[w].b, 1, <<loc[w].context>>))
    /\ loc' = [loc EXCEPT ![w].out = "returned"]
    /\ pc' = [pc EXCEPT ![w] = "idle"]
    /\ Counted(w, 1)
    /\ UNCHANGED <<client, handleTables, nodeTables, factTables, entities, aliases, handed, edges, sessionTables>>

----------------------------------------------------------------------------
(* Entity edges.  create_entity_edge is one INSERT; the ids are not looked  *)
(* up (no foreign key is enforced).  StateManager.get_related_entities     *)
(* returns the entities at the other end of the edges that leave the       *)
(* entity, then of those that arrive at it; EntityGraph's walks them depth *)
(* first with a visited set.                                               *)

MaxEdges == 3

EdgeRow(session_id, source_entity_id, target_entity_id, relation_type) ==
    [session_id |-> session_id, source_entity_id |-> source_entity_id,
     target_entity_id |-> target_entity_id, relation_type |-> relation_type]

create_entity_edge(w, session_id, source_entity_id, target_entity_id, relation_type) ==
    /\ pc[w] = "idle"
    /\ Len(edges) < MaxEdges
    /\ edges' = Append(edges, EdgeRow(session_id, source_entity_id, target_entity_id,
                                      relation_type))
    /\ loc' = [loc EXCEPT ![w] = [IdleLoc EXCEPT !.op = "create_entity_edge",
                                  !.id = Len(edges) + 1]]
    /\ Counted(w, 1)
    /\ UNCHANGED <<client, handleTables, pc, nodeTables, factTables, entities, aliases, cooc, handed,
                   sessionTables>>

\* the rows of one of the two SELECTs: the edges of the entity at its `near`
\* end, joined with the entity at the `far` end, in the order ord of the edges
\* (a SELECT without ORDER BY)
JoinedRows(ord, entity_id, relation_type, near, far, direction) ==
    LET hit(i) == /\ edges[i][near] = entity_id
                  /\ edges[i][far] \in DOMAIN entities
                  /\ relation_type.some => edges[i].relation_type = relation_type.v
        sel == SelectSeq(ord, hit)
    IN [k \in 1..Len(sel) |->
           [id |-> edges[sel[k]][far], relation_type |-> edges[sel[k]].relation_type,
            direction |-> direction]]

\* StateManager.get_related_entities
sm_get_related_entities(ord, entity_id, relation_type, direction) ==
    (IF direction \in {"outgoing", "both"}
     THEN JoinedRows(ord, entity_id, relation_type, "source_entity_id",
                     "target_entity_id", "outgoing")
     ELSE << >>)
    \o (IF direction \in {"incoming", "both"}
        THEN JoinedRows(ord, entity_id, relation_type, "target_entity_id",
                        "source_entity_id", "incoming")
        ELSE << >>)

\* a walk that takes every row as new
AlwaysNew(visited, id) == TRUE

\* if rel["id"] not in visited
NotVisited(visited, id) == id \notin visited

\* traverse(entity_id, current_depth, path), and its loop over the rows; st
\* holds visited and results, which the nested function shares
RECURSIVE traverse(_, _, _, _, _, _, _, _)
RECURSIVE traverse_rows(_, _, _, _, _, _, _, _)
traverse(st, ord, relation_type, direction, depth, entity_id, current_depth, path) ==
    IF current_depth > depth THEN st
    ELSE traverse_rows(st, ord, relation_type, direction, depth,
                       sm_get_related_entities(ord, entity_id, relation_type, direction),
                       current_depth, path)

traverse_rows(st, ord, relation_type, direction, depth, related, current_depth, path) ==
    IF related = << >> THEN st
    ELSE LET rel == Head(related)
             found == [visited |-> st.visited \cup {rel.id},
                       results |-> Append(st.results,
                                          [id |-> rel.id,
                                           relation_type |-> rel.relation_type,
                                           direction |-> rel.direction,
                                           depth |-> current_depth,
                                           path |-> Append(path, rel.relation_type)])]
             after == IF ~NotVisited(st.visited, rel.id) THEN st
                      ELSE IF current_depth < depth
                      THEN traverse(found, ord, relation_type, direction, depth, rel.id,
                                    current_depth + 1, Append(path, rel.relation_type))
                      ELSE found
         IN traverse_rows(after, ord, relation_type, direction, depth, Tail(related),
                          current_depth, path)

\* EntityGraph.get_related_entities; get_entity_by_name is get_canonical_name
\* and fetchone() on the entities of that name in the session
get_related_entities(w, session_id, entity_name, relation_type, direction, depth) ==
    /\ pc[w] = "idle"
    /\ LET named == EntitiesNamed(entities, session_id,
                                  get_canonical_name(aliases, entity_name))
           l == [IdleLoc EXCEPT !.op = "get_related_entities", !.sess = session_id,
                                !.name = entity_name, !.depth = depth]
       IN IF named = {}
          THEN loc' = [loc EXCEPT ![w] = l]
          ELSE \E entity \in named, ord \in Permutations(DOMAIN edges) :
                 loc' = [loc EXCEPT ![w] = [l EXCEPT
                    !.id = entity,
                    !.results = traverse([visited |-> {entity}, results |-> << >>],
                                         ord, relation_type, direction, depth,
                                         entity, 1, << >>).results]]
    /\ UNCHANGED <<client, handleTables, pc, nodeTables, factTables, entityTables, sessionTables, changed>>

----------------------------------------------------------------------------
(* calculate_information_entropy: the contents of the nodes that are       *)
(* stored are joined with blanks, _extract_keywords takes the words of a   *)
(* text in lower case that are longer than three characters and are no     *)
(* stop word, and the share of the new keywords that the existing text     *)
(* does not have is classified.  A text is the sequence of its characters; *)
(* the entropy is kept as the pair of the two lengths that are divided.    *)

WordChars ==
    {UpperCase[i] : i \in 1..26} \cup {LowerCase[i] : i \in 1..26} \cup Digits \cup {"_"}

\* re.findall(r"\w+", text): the maximal runs of word characters
RECURSIVE findall_words(_, _, _)
findall_words(text, word, found) ==
    IF text = << >>
    THEN IF word = << >> THEN found ELSE found \cup {word}
    ELSE IF Head(text) \in WordChars
         THEN findall_words(Tail(text), Append(word, Head(text)), found)
         ELSE findall_words(Tail(text), << >>,
                            IF word = << >> THEN found ELSE found \cup {word})

stop_words ==
    {<<"t", "h", "e">>, <<"a">>, <<"a", "n">>, <<"a", "n", "d">>,
     <<"o", "r">>, <<"b", "u", "t">>, <<"i", "n">>, <<"o", "n">>,
     <<"a", "t">>, <<"t", "o">>, <<"f", "o", "r">>, <<"o", "f">>,
     <<"w", "i", "t", "h">>, <<"b", "y">>, <<"f", "r", "o", "m">>,
     <<"a", "s">>, <<"i", "s">>, <<"w", "a", "s">>, <<"a", "r", "e">>,
     <<"w", "e", "r", "e">>, <<"b", "e", "e", "n">>, <<"b", "e">>,
     <<"h", "a", "v", "e">>, <<"h", "a", "s">>, <<"h", "a", "d">>,
     <<"d", "o">>, <<"d", "o", "e", "s">>, <<"d", "i", "d">>,
     <<"w", "i", "l", "l">>, <<"w", "o", "u", "l", "d">>,
     <<"c", "o", "u", "l", "d">>, <<"s", "h", "o", "u", "l", "d">>,
     <<"m", "a", "y">>, <<"m", "i", "g", "h", "t">>, <<"m", "u", "s", "t">>,
     <<"c", "a", "n">>, <<"t", "h", "i", "s">>, <<"t", "h", "a", "t">>,
     <<"t", "h", "e", "s", "e">>, <<"t", "h", "o", "s", "e">>, <<"i", "t">>,
     <<"i", "t", "s">>, <<"w", "h", "i", "c", "h">>, <<"w", "h", "a", "t">>,
     <<"w", "h", "o">>, <<"w", "h", "e", "n">>, <<"w", "h", "e", "r", "e">>}

_extract_keywords(text) ==
    {word \in findall_words(LowerAll(text), << >>, {}) :
        Len(word) > 3 /\ word \notin stop_words}

\* " ".join(contents)
RECURSIVE JoinContents(_)
JoinContents(contents) ==
    IF contents = << >> THEN << >>
    ELSE IF Len(contents) = 1 THEN contents[1]
    ELSE contents[1] \o <<" ">> \o JoinContents(Tail(contents))

\* entropy > tenths / 10, for entropy = entropy[1] / entropy[2]
Over(entropy, tenths) == 10 * entropy[1] > tenths * entropy[2]

Interpretation(entropy) ==
    IF Over(entropy, 7) THEN "high_novelty"
    ELSE IF Over(entropy, 4) THEN "moderate_novelty"
    ELSE IF Over(entropy, 2) THEN "low_novelty"
    ELSE "duplicate_content"

EntropyReport(new_keywords, existing_keywords) ==
    IF new_keywords = {} \/ existing_keywords = {}
    THEN [entropy |-> <<1, 1>>,
          interpretation |-> "high_novelty",
          new_keyword_count |-> Cardinality(new_keywords),
          existing_keyword_count |-> Cardinality(existing_keywords),
          unique_new_keywords |-> None,
          overlap_count |-> 0,
          recommendation |-> None]
    ELSE LET unique_new == new_keywords \ existing_keywords
             entropy == <<Cardinality(unique_new), Cardinality(new_keywords)>>
         IN [entropy |-> entropy,
             interpretation |-> Interpretation(entropy),
             new_keyword_count |-> Cardinality(new_keywords),
             existing_keyword_count |-> Cardinality(existing_keywords),
             unique_new_keywords |-> Some(Cardinality(unique_new)),
             overlap_count |-> Cardinality(new_keywords \cap existing_keywords),
             recommendation |-> Some(IF Over(entropy, 2) THEN "continue"
                                     ELSE "stop_exploration")]

\* new_content and existing_content: the contents of the nodes, among those
\* asked for, that get_node finds
calculate_information_entropy(w, new_content, existing_content) ==
    /\ pc[w] = "idle"
    /\ loc' = [loc EXCEPT ![w] = [IdleLoc EXCEPT
                    !.op = "calculate_information_entropy",
                    !.args = <<new_content, existing_content>>,
                    !.report = Some(EntropyReport(
                                   _extract_keywords(JoinContents(new_content)),
                                   _extract_keywords(JoinContents(existing_content))))]]
    /\ UNCHANGED <<client, handleTables, pc, nodeTables, factTables, entityTables, sessionTables, changed>>

----------------------------------------------------------------------------
(* get_branch_health: the descendants of the node by _get_all_descendants, *)
(* then one SELECT of the score per descendant, a descendant whose row is  *)
(* not found being skipped, then the report.  The SELECTs of the scores    *)
(* are taken as one step.  Scores are in tenths; the average is kept as    *)
(* the pair of the sum and the number of the scores.                       *)

get_branch_health_start(w, node_id) ==
    /\ pc[w] = "idle"
    /\ loc' = [loc EXCEPT ![w] = [IdleLoc EXCEPT !.op = "get_branch_health",
                                  !.node = node_id, !.todo = {node_id}]]
    /\ pc' = [pc EXCEPT ![w] = "gbh_collect"]
    /\ UNCHANGED <<client, handleTables, nodes, obs, factTables, entityTables, sessionTables, changed>>

RECURSIVE SumScores(_, _)
SumScores(tbl, ids) ==
    IF ids = {} THEN 0
    ELSE LET x == CHOOSE y \in ids : TRUE
         IN tbl[x].score + SumScores(tbl, ids \ {x})

\* avg_score >= tenths / 10
AtLeast(avg_score, tenths) == avg_score[1] >= tenths * avg_score[2]

HealthReport(tbl, descendants) ==
    LET found == descendants \cap DOMAIN tbl
        avg_score == <<SumScores(tbl, found), Cardinality(found)>>
    IN IF descendants = {}
       THEN [health |-> "unknown", reason |-> "no_descendants", node_count |-> 0]
       ELSE IF found = {}
       THEN [health |-> "unknown", reason |-> "no_scores",
             node_count |-> Cardinality(descendants)]
       ELSE [health |-> IF AtLeast(avg_score, 80) THEN "excellent"
                        ELSE IF AtLeast(avg_score, 60) THEN "good"
                        ELSE IF AtLeast(avg_score, 40) THEN "fair"
                        ELSE "poor",
             recommendation |-> IF AtLeast(avg_score, 80) THEN "continue_and_extend"
                                ELSE IF AtLeast(avg_score, 60) THEN "continue"
                                ELSE IF AtLeast(avg_score, 40) THEN "monitor"
                                ELSE "consider_circuit_break",
             node_count |-> Cardinality(descendants),
             avg_score |-> avg_score,
             max_score |-> CHOOSE m \in {tbl[x].score : x \in found} :
                              \A x \in found : tbl[x].score <= m,
             min_score |-> CHOOSE m \in {tbl[x].score : x \in found} :
                              \A x \in found : m <= tbl[x].score,
             score_distribution |->
                 [excellent |-> Cardinality({x \in found : tbl[x].score >= 90}),
                  good |-> Cardinality({x \in found : 70 <= tbl[x].score
                                                      /\ tbl[x].score < 90}),
                  fair |-> Cardinality({x \in found : 50 <= tbl[x].score
                                                      /\ tbl[x].score < 70}),
                  poor |-> Cardinality({x \in found : tbl[x].score < 50})]]

get_branch_health_scores(w) ==
    /\ pc[w] = "gbh_collect"
    /\ loc[w].todo = {}
    /\ loc' = [loc EXCEPT ![w].report = Some(HealthReport(nodes, loc[w].desc)),
                          ![w].out = "returned"]
    /\ pc' = [pc EXCEPT ![w] = "idle"]
    /\ UNCHANGED <<client, handleTables, nodes, obs, factTables, entityTables, sessionTables, changed>>

----------------------------------------------------------------------------
(* Fact sources and conflicts.  add_fact_source and create_conflict are    *)
(* one INSERT each; the fact ids they are given are not looked up (the     *)
(* foreign keys are declared and never enforced).  resolve_conflict is one *)
(* UPDATE and `return conn.total_changes > 0`.                             *)

MaxSources == 1
MaxConflicts == 1

add_fact_source(w, fact_id, source_url) ==
    /\ pc[w] = "idle"
    /\ Len(sources) < MaxSources
    /\ sources' = Append(sources, SourceRow(fact_id, source_url))
    /\ loc' = [loc EXCEPT ![w] = [IdleLoc EXCEPT !.op = "add_fact_source",
                                  !.id = Len(sources) + 1]]
    /\ Counted(w, 1)
    /\ UNCHANGED <<client, handleTables, pc, nodeTables, facts, conflicts, entityTables, sessionTables>>

ConflictRow(fact_id_a, fact_id_b, conflict_type, severity) ==
    [fact_id_a |-> fact_id_a, fact_id_b |-> fact_id_b, conflict_type |-> conflict_type,
     severity |-> severity, resolution |-> None, resolved |-> FALSE]

create_conflict(w, fact_id_a, fact_id_b, conflict_type, severity) ==
    /\ pc[w] = "idle"
    /\ Len(conflicts) < MaxConflicts
    /\ conflicts' = Append(conflicts,
                           ConflictRow(fact_id_a, fact_id_b, conflict_type, severity))
    /\ loc' = [loc EXCEPT ![w] = [IdleLoc EXCEPT !.op = "create_conflict",
                                  !.id = Len(conflicts) + 1]]
    /\ Counted(w, 1)
    /\ UNCHANGED <<client, handleTables, pc, nodeTables, facts, sources, entityTables, sessionTables>>

\* the id of a row that a deletion has removed: AUTOINCREMENT hands no id out
\* twice, the place of the row in the table stays taken and holds no owner
NoId == 0
Deleted == "(deleted)"

resolve_conflict(w, conflict_id, resolution) ==
    /\ pc[w] = "idle"
    /\ LET rows == IF /\ conflict_id \in DOMAIN conflicts
                      /\ conflicts[conflict_id].fact_id_a # NoId
                   THEN 1 ELSE 0
       IN /\ conflicts' = IF rows = 1
                          THEN [conflicts EXCEPT ![conflict_id].resolution = Some(resolution),
                                                 ![conflict_id].resolved = TRUE]
                          ELSE conflicts
          /\ Counted(w, rows)
          /\ loc' = [loc EXCEPT ![w] = [IdleLoc EXCEPT
                        !.op = "resolve_conflict", !.id = conflict_id,
                        !.out = IF changed[w] \/ rows > 0 THEN "true" ELSE "false"]]
    /\ UNCHANGED <<client, handleTables, pc, nodeTables, facts, sources, entityTables, sessionTables>>

----------------------------------------------------------------------------
(* The agent registry.  register_agent is one INSERT OR REPLACE: a row     *)
(* with the agent's id is replaced by the new one, status 'active'.        *)
(* update_agent_heartbeat is one UPDATE of last_seen and of the columns    *)
(* given, whatever the row holds, and `return conn.total_changes > 0`.     *)

AgentRow(last_seen, meta) ==
    [last_seen |-> last_seen, current_action |-> None, status |-> "active",
     meta |-> meta]

\* CURRENT_TIMESTAMP: the latest last_seen that is stored, or 0
LatestSeen(tbl) ==
    IF DOMAIN tbl = {} THEN 0
    ELSE LET a == CHOOSE x \in DOMAIN tbl :
                     \A y \in DOMAIN tbl : tbl[y].last_seen <= tbl[x].last_seen
         IN tbl[a].last_seen

register_agent(w, agent_id, meta, tick) ==
    /\ pc[w] = "idle"
    /\ agents' = [a \in DOMAIN agents \cup {agent_id} |->
                    IF a = agent_id
                    THEN AgentRow(LatestSeen(agents) + tick, CreateMeta(meta))
                    ELSE agents[a]]
    /\ loc' = [loc EXCEPT ![w] = [IdleLoc EXCEPT !.op = "register_agent",
                                  !.name = agent_id, !.out = "true"]]
    /\ Counted(w, 1)
    /\ UNCHANGED <<client, handleTables, pc, nodeTables, factTables, entityTables, sessions>>

update_agent_heartbeat(w, agent_id, current_action, status, tick) ==
    /\ pc[w] = "idle"
    /\ agents' = IF Stored(agents, agent_id)
                 THEN [agents EXCEPT
                         ![agent_id].last_seen = LatestSeen(agents) + tick,
                         ![agent_id].current_action =
                             IF current_action.some THEN current_action ELSE @,
                         ![agent_id].status = IF status.some THEN status.v ELSE @]
                 ELSE agents
    /\ LET rows == IF Stored(agents, agent_id) THEN 1 ELSE 0
       IN /\ Counted(w, rows)
          /\ loc' = [loc EXCEPT ![w] = [IdleLoc EXCEPT
                        !.op = "update_agent_heartbeat", !.name = agent_id,
                        !.out = IF changed[w] \/ rows > 0 THEN "true" ELSE "false"]]
    /\ UNCHANGED <<client, handleTables, pc, nodeTables, factTables, entityTables, sessions>>

----------------------------------------------------------------------------
(* clear_all: three DELETEs without a WHERE in one transaction, on nodes,  *)
(* agent_heartbeats and research_sessions; no other table is touched.      *)

clear_all(w) ==
    /\ pc[w] = "idle"
    /\ nodes' = [i \in {} |-> 0]
    /\ agents' = [i \in {} |-> 0]
    /\ sessions' = [i \in {} |-> 0]
    /\ loc' = [loc EXCEPT ![w] = [IdleLoc EXCEPT !.op = "clear_all"]]
    /\ Counted(w, Cardinality(DOMAIN nodes) + Cardinality(DOMAIN agents)
                  + Cardinality(DOMAIN sessions))
    /\ UNCHANGED <<client, handleTables, pc, obs, factTables, entityTables>>

----------------------------------------------------------------------------
(* Deleting one session.  The store's delete_session and get_session are   *)
(* called by the integration tests and have no body in                     *)
(* scripts/state_manager.py; they are modelled as the design document      *)
(* states them: delete(id) removes the session and, in the same            *)
(* transaction, every row of a dependent table that the session owns;      *)
(* get(id) returns None for a session that is not stored.  Ownership is    *)
(* what the schema declares: facts, entities and edges carry a session_id, *)
(* a fact source and a conflict belong to their facts, a co-occurrence to  *)
(* its entities.  The nodes and agent_heartbeats tables of the schema      *)
(* carry no session id, so no row of theirs is owned by a session.         *)

\* a delete that does not cascade
OwnedByNone(tbl, session_id) == {}

OwnedBy(tbl, session_id) == {i \in DOMAIN tbl : tbl[i].session_id = session_id}

SourcesOf(tbl, fact_ids) == {i \in DOMAIN tbl : tbl[i].fact_id \in fact_ids}

ConflictsOf(tbl, fact_ids) ==
    {i \in DOMAIN tbl : tbl[i].fact_id_a \in fact_ids \/ tbl[i].fact_id_b \in fact_ids}

CooccurrencesOf(tbl, entity_ids) ==
    {i \in DOMAIN tbl : tbl[i].entity_a_id \in entity_ids
                        \/ tbl[i].entity_b_id \in entity_ids}

Disowned(tbl, ids) ==
    [i \in DOMAIN tbl |-> IF i \in ids THEN [tbl[i] EXCEPT !.session_id = Deleted]
                          ELSE tbl[i]]

delete_session(w, session_id) ==
    /\ pc[w] = "idle"
    /\ LET fact_ids == OwnedBy(facts, session_id)
           entity_ids == OwnedBy(entities, session_id)
           edge_ids == OwnedBy(edges, session_id)
           source_ids == SourcesOf(sources, fact_ids)
           conflict_ids == ConflictsOf(conflicts, fact_ids)
           cooc_ids == CooccurrencesOf(cooc, entity_ids)
       IN /\ sessions' = [s \in DOMAIN sessions \ {session_id} |-> sessions[s]]
          /\ facts' = Disowned(facts, fact_ids)
          /\ entities' = Disowned(entities, entity_ids)
          /\ edges' = Disowned(edges, edge_ids)
          /\ sources' = [i \in DOMAIN sources |->
                           IF i \in source_ids
                           THEN [sources[i] EXCEPT !.fact_id = NoId] ELSE sources[i]]
          /\ conflicts' = [i \in DOMAIN conflicts |->
                             IF i \in conflict_ids
                             THEN [conflicts[i] EXCEPT !.fact_id_a = NoId,
                                                       !.fact_id_b = NoId]
                             ELSE conflicts[i]]
          /\ cooc' = [i \in DOMAIN cooc |->
                        IF i \in cooc_ids
                        THEN [cooc[i] EXCEPT !.entity_a_id = NoId, !.entity_b_id = NoId]
                        ELSE cooc[i]]
          /\ loc' = [loc EXCEPT ![w] = [IdleLoc EXCEPT
                        !.op = "delete_session", !.sess = session_id,
                        !.ret = fact_ids,
                        !.gone = entity_ids,
                        !.n = Cardinality(edge_ids) + Cardinality(source_ids)
                              + Cardinality(conflict_ids) + Cardinality(cooc_ids),
                        !.out = IF Stored(sessions, session_id) THEN "true" ELSE "false"]]
          /\ Counted(w, (IF Stored(sessions, session_id) THEN 1 ELSE 0)
                        + Cardinality(fact_ids) + Cardinality(entity_ids)
                        + Cardinality(edge_ids) + Cardinality(source_ids)
                        + Cardinality(conflict_ids) + Cardinality(cooc_ids))
    /\ UNCHANGED <<client, handleTables, pc, nodeTables, aliases, handed, agents>>

get_session(w, session_id) ==
    /\ pc[w] = "idle"
    /\ loc' = [loc EXCEPT ![w] = [IdleLoc EXCEPT
                    !.op = "get_session", !.sess = session_id,
                    !.out = IF Stored(sessions, session_id) THEN "row" ELSE "None"]]
    /\ UNCHANGED <<client, handleTables, pc, nodeTables, factTables, entityTables, sessionTables, changed>>

----------------------------------------------------------------------------
(* Best-N pruning: nodes with scores under any parent, keep_best_n with any *)
(* n and scope.  In the concurrent specification worker w1 is the          *)
(* supervisor that prunes while worker w2 creates nodes of the top score.  *)

\* roots, and children of node 1
PruneParents == {NoParent, 1}

NextPruneOf(ws) ==
    \E w \in ws :
        \/ \E id \in NodeIds, p \in PruneParents, s \in Scores :
              create_node(w, id, p, s, 0, "None", 0)
        \/ \E n \in 0..MaxKeep, p \in PruneParents :
              keep_best_n_select(w, n, p)
        \/ keep_best_n_delete(w)

NextPruneSeq == NextPruneOf({"w1"})

SpecPruneSeq == Init /\ [][NextPruneSeq]_vars

NextPrune ==
    \/ NextPruneOf({"w1"})
    \/ \E id \in NodeIds, p \in PruneParents :
          create_node("w2", id, p, 90, 0, "None", 0)

SpecPrune == Init /\ [][NextPrune]_vars

----------------------------------------------------------------------------
(* C1: when keep_best_n(n, parent_id) has returned, exactly                *)
(* min(n, number of rows the scope held) rows of the scope are left, and   *)
(* no row that is left has a lower score than a row that was pruned.       *)

C1_KeepBestNLeavesTopN ==
    \A w \in Workers :
        (pc[w] = "idle" /\ loc[w].op = "keep_best_n" /\ loc[w].out = "returned") =>
            LET pre == loc[w].pre
                scope == ScopeIn(pre, loc[w].parent)
                left == scope \cap DOMAIN nodes
                pruned == scope \ DOMAIN nodes
            IN /\ Cardinality(left) = Min(loc[w].n, Cardinality(scope))
               /\ \A r \in left : \A p \in pruned : pre[r].score >= pre[p].score

(* C2: keep_best_n never prunes a row that its selection did not compare:  *)
(* every row it deletes was in the scope when the top N were selected.     *)

C2_PrunedWereCompared ==
    \A w \in Workers :
        (pc[w] = "idle" /\ loc[w].op = "keep_best_n" /\ loc[w].out = "returned") =>
            loc[w].gone \subseteq ScopeIn(loc[w].pre, loc[w].parent)

----------------------------------------------------------------------------
(* Circuit breaking: nodes with and without metadata under any parent.  In *)
(* the concurrent specification worker w2 reads the graph while worker w1  *)
(* works.                                                                  *)

NextBreakOf(ws) ==
    \E w \in ws :
        \/ \E id \in NodeIds, p \in {NoParent} \cup NodeIds, m \in {"None", "dict"} :
              create_node(w, id, p, 40, 0, m, 0)
        \/ \E id \in NodeIds : execute_circuit_break_get(w, id)
        \/ execute_circuit_break_update(w)
        \/ _get_all_descendants(w)
        \/ execute_circuit_break_delete(w)

NextBreakSeq == NextBreakOf({"w1"})

SpecBreakSeq == Init /\ [][NextBreakSeq]_vars

NextBreak ==
    \/ NextBreakOf({"w1"})
    \/ export_graph("w2")

SpecBreak == Init /\ [][NextBreak]_vars

----------------------------------------------------------------------------
(* Node creation and update: any parent, any depth argument                *)

NextDepth ==
    \E w \in {"w1"} :
        \/ \E id \in NodeIds, p \in {NoParent} \cup NodeIds, d \in 0..MaxDepth :
              create_node(w, id, p, 40, d, "None", 0)
        \/ \E id \in NodeIds, c \in {None, Some("text")}, s \in {None, Some(90)} :
              update_node(w, id, c, s, None, None)

SpecDepth == Init /\ [][NextDepth]_vars

----------------------------------------------------------------------------
(* Conflict groups: facts of two sessions on three (entity, attribute)     *)
(* pairs, each with one of two values                                      *)

Sessions == {"s1", "s2"}
FactKeys == {<<"E", "A">>, <<"E", "B">>, <<"F", "A">>}
Value10 == <<"1", "0">>
Value15 == <<"1", "5">>

NextConflicts ==
    \E w \in {"w1"} :
        \/ \E s \in Sessions, k \in FactKeys, v \in {Value10, Value15} :
             create_fact(w, s, k[1], k[2], v, "text", None, None, 1)
        \/ \E s \in Sessions : detect_conflicts(w, s)

SpecConflicts == Init /\ [][NextConflicts]_vars

(* Severity: facts of one (entity, attribute) pair whose numeric values    *)
(* are whole numbers, which a float holds exactly, or NULL                 *)

NumericFacts ==
    {[value |-> <<"1", "0", "0">>, numeric |-> Some(Dec(100, 0))],
     [value |-> <<"1", "2", "5">>, numeric |-> Some(Dec(125, 0))],
     [value |-> <<"1", "0">>, numeric |-> Some(Dec(10, 0))],
     [value |-> <<"9", "5">>, numeric |-> Some(Dec(95, 0))],
     [value |-> <<"0">>, numeric |-> Some(Dec(0, 0))],
     [value |-> <<"-", "5">>, numeric |-> Some(Dec(0 - 5, 0))],
     [value |-> <<"n", "/", "a">>, numeric |-> None]}

NextSeverity ==
    \E w \in {"w1"} :
        \/ \E f \in NumericFacts, tick \in {0, 1} :
             create_fact(w, "s1", "E", "A", f.value,
                         IF f.numeric.some THEN "number" ELSE "text",
                         f.numeric, None, tick)
        \/ detect_conflicts(w, "s1")

SpecSeverity == Init /\ [][NextSeverity]_vars

(* The ledger: facts on the size of the AI market, inserted with           *)
(* create_fact(session_id, entity, attribute, value) or imported from a    *)
(* file of one or two items                                                *)

Value184B == <<"$", "1", "8", "4", "B">>
Value210B == <<"$", "2", "1", "0", "B">>
LedgerValues == {Value184B, Value210B, <<"1", "2", "%">>, <<"n", "/", "a">>}
LedgerItems ==
    {Item("AI Market", "size", v, None, None, None) : v \in LedgerValues}
        \cup {Item("AI Market", "size", Value184B, None, Some(Some(Dec(184, 0))), Some(Some("USD")))}

NextLedger ==
    \E w \in {"w1"} :
        \/ \E v \in LedgerValues :
             create_fact(w, "s1", "AI Market", "size", v, "text", None, None, 1)
        \/ \E f \in LedgerItems :
             create_facts_from_json(w, "s1", <<f>>, <<1>>)
        \/ \E f \in LedgerItems, g \in LedgerItems :
             create_facts_from_json(w, "s1", <<f, g>>, <<1, 0>>)
        \/ detect_conflicts(w, "s1")

SpecLedger == Init /\ [][NextLedger]_vars

----------------------------------------------------------------------------
(* Entities: two names, either of which may be registered as an alias of   *)
(* the other or of itself, in two sessions                                 *)

Names == {"OpenAI", "Open AI"}

NextEntities ==
    \E w \in {"w1"} :
        \/ \E s \in Sessions, x \in Names : create_entity_resolve(w, s, x)
        \/ create_entity_select(w)
        \/ create_entity_insert(w)
        \/ \E c \in Names, x \in Names : add_entity_alias(w, c, x)

SpecEntities == Init /\ [][NextEntities]_vars

(* Co-occurrences: the store takes the two ids as they are given, in       *)
(* either order, also twice the same id                                    *)

EntityIds == {1, 2}
Contexts == {"c1", "c2"}

NextCooc ==
    \E w \in {"w1"} :
        \/ \E a \in EntityIds, b \in EntityIds, c \in Contexts :
             /\ CountBelow(cooc, a, b, MaxCount)
             /\ record_cooccurrence_select(w, a, b, c)
        \/ record_cooccurrence_write(w)

SpecCooc == Init /\ [][NextCooc]_vars

----------------------------------------------------------------------------
(* C3: when execute_circuit_break(node_id) has ended on a node that        *)
(* existed, the node is circuit_broken, its metadata holds the reason and  *)
(* the timestamp, it has no descendants left, and the pruned_nodes         *)
(* reported are exactly the descendants that were removed.                 *)

C3_CircuitBreakRemovesDescendants ==
    \A w \in Workers :
        (/\ pc[w] = "idle" /\ loc[w].op = "execute_circuit_break"
         /\ loc[w].node \in DOMAIN loc[w].pre) =>
            LET id == loc[w].node
                pre == loc[w].pre
            IN /\ loc[w].out = "returned"
               /\ id \in DOMAIN nodes
               /\ nodes[id].status = "circuit_broken"
               /\ ~nodes[id].meta.null
               /\ {"circuit_break_reason", "circuit_break_timestamp"}
                      \subseteq nodes[id].meta.keys
               /\ DescendantsIn(nodes, id) = {}
               /\ loc[w].desc = DescendantsIn(pre, id)
               /\ loc[w].desc = DOMAIN pre \ DOMAIN nodes

(* C4: no read of the graph by another worker shows a node that a circuit  *)
(* break under way has marked circuit_broken while descendants it had are  *)
(* still there, and a circuit break that raised has left every row as it   *)
(* was when the operation began.                                           *)

C4_CircuitBreakAtomic ==
    /\ \A r \in Workers : obs[r] = {}
    /\ \A w \in Workers :
          (pc[w] = "idle" /\ loc[w].op = "execute_circuit_break"
           /\ loc[w].out = "raised") => nodes = loc[w].pre

(* C10: every node whose parent is stored has the parent's depth plus one. *)

C10_DepthIsParentDepthPlusOne ==
    \A i \in DOMAIN nodes :
        (nodes[i].parent # NoParent /\ nodes[i].parent \in DOMAIN nodes) =>
            nodes[i].depth = nodes[nodes[i].parent].depth + 1

----------------------------------------------------------------------------
(* C5: when detect_conflicts(session_id) has returned, it has reported one *)
(* group for every (entity, attribute) pair for which the session holds    *)
(* two facts of different values and no other group, and the facts of a    *)
(* group are the facts of that session on that pair.                       *)
C5_OneGroupPerConflictingPair ==
    \A w \in Workers :
        loc[w].op = "detect_conflicts" =>
            LET s == loc[w].sess
                ofPair(k) == {i \in DOMAIN facts : /\ facts[i].session_id = s
                                                   /\ facts[i].entity = k[1]
                                                   /\ facts[i].attribute = k[2]}
                pairs == {<<facts[i].entity, facts[i].attribute>> : i \in DOMAIN facts}
                reported(k) == {c \in loc[w].ret : c.entity = k[1] /\ c.attribute = k[2]}
            IN /\ \A k \in pairs :
                    Cardinality(reported(k)) =
                        IF \E i \in ofPair(k), j \in ofPair(k) : facts[i].value # facts[j].value
                        THEN 1 ELSE 0
               /\ \A c \in loc[w].ret :
                    /\ <<c.entity, c.attribute>> \in pairs
                    /\ c.facts = ofPair(<<c.entity, c.attribute>>)

C5_GroupBesideOtherSession ==
    \E w \in Workers :
        /\ loc[w].op = "detect_conflicts"
        /\ loc[w].sess = "s1"
        /\ Len(facts) = 3
        /\ \E c \in loc[w].ret :
             /\ loc[w].ret = {c}
             /\ Cardinality(c.facts) = 2
             /\ \E i \in DOMAIN facts :
                  /\ facts[i].session_id = "s2"
                  /\ facts[i].entity = c.entity
                  /\ facts[i].attribute = c.attribute

C7_CreateFactDerives ==
    \A w \in Workers :
        /\ loc[w].op = "create_fact" =>
             LET row == facts[loc[w].id]
             IN parse_value(row.value) =
                    ParseResult(row.value_numeric, row.value_type, row.unit)
        /\ (/\ loc[w].op = "detect_conflicts"
            /\ Len(facts) = 2
            /\ {facts[i].value : i \in DOMAIN facts} = {Value184B, Value210B}) =>
               \E c \in loc[w].ret : loc[w].ret = {c} /\ c.severity = "moderate"

(* C7, amended: create_fact stores the value_type, value_numeric and unit  *)
(* it is passed (text, NULL and NULL when they are left out); it is        *)
(* create_facts_from_json that derives them with parse_value, for every    *)
(* field the item does not give itself: "$184B" and "$210B" are stored as  *)
(* currency, 184 and 210, USD billion, and a session holding these two     *)
(* imported facts on one pair gets one conflict of severity moderate.      *)
C7_ImportDerives ==
    \A w \in Workers :
        /\ loc[w].op = "create_fact" =>
             LET row == facts[loc[w].id]
             IN row.value_type = "text" /\ row.value_numeric = None /\ row.unit = None
        /\ loc[w].op = "create_facts_from_json" =>
             /\ Len(facts) = loc[w].id + Len(loc[w].batch)
             /\ \A k \in 1..Len(loc[w].batch) :
                  LET item == loc[w].batch[k]
                      row == facts[loc[w].id + k]
                      parsed == parse_value(item.value)
                      own == item.value_type.some \/ item.value_numeric.some \/ item.unit.some
                  IN /\ row.session_id = loc[w].sess
                     /\ row.value = item.value
                     /\ ~item.value_type.some => row.value_type = parsed.value_type
                     /\ ~item.value_numeric.some => row.value_numeric = parsed.numeric
                     /\ ~item.unit.some => row.unit = parsed.unit
                     /\ (item.value = Value184B /\ ~own) =>
                            /\ row.value_type = "currency"
                            /\ row.value_numeric = Some(Dec(184, 0))
                            /\ row.unit = Some("USD billion")
                     /\ (item.value = Value210B /\ ~own) =>
                            /\ row.value_type = "currency"
                            /\ row.value_numeric = Some(Dec(210, 0))
                            /\ row.unit = Some("USD billion")
        /\ (/\ loc[w].op = "detect_conflicts"
            /\ Len(facts) = 2
            /\ {<<facts[i].value, facts[i].value_type, facts[i].value_numeric>> :
                    i \in DOMAIN facts}
                 = {<<Value184B, "currency", Some(Dec(184, 0))>>,
                    <<Value210B, "currency", Some(Dec(210, 0))>>}) =>
               \E c \in loc[w].ret :
                    loc[w].ret = {c} /\ c.severity = "moderate" /\ c.conflict_type = "numerical"

C7_ImportedPairModerate ==
    \E w \in Workers :
        /\ loc[w].op = "detect_conflicts"
        /\ Len(facts) = 2
        /\ {<<facts[i].value, facts[i].value_type, facts[i].unit>> : i \in DOMAIN facts}
             = {<<Value184B, "currency", Some("USD billion")>>,
                <<Value210B, "currency", Some("USD billion")>>}
        /\ \E c \in loc[w].ret : c.severity = "moderate"

C9_OneRowPerPair ==
    /\ \A i \in DOMAIN cooc : cooc[i].entity_a_id <= cooc[i].entity_b_id
    /\ \A i \in DOMAIN cooc, j \in DOMAIN cooc :
         (/\ {cooc[i].entity_a_id, cooc[i].entity_b_id}
               = {cooc[j].entity_a_id, cooc[j].entity_b_id}) => i = j
    /\ \A w \in Workers :
         (pc[w] = "idle" /\ loc[w].op = "record_cooccurrence") =>
            LET before == loc[w].rows
                ofPair(tbl) == {i \in DOMAIN tbl :
                                   {tbl[i].entity_a_id, tbl[i].entity_b_id}
                                       = {loc[w].args[1], loc[w].args[2]}}
            IN /\ Cardinality(ofPair(cooc)) = 1
               /\ \A i \in ofPair(cooc) :
                    cooc[i].cooccurrence_count =
                        IF i \in ofPair(before) THEN before[i].cooccurrence_count + 1 ELSE 1
               /\ \A i \in DOMAIN before : i \notin ofPair(before) => cooc[i] = before[i]
               /\ Len(cooc) = Len(before) + (IF ofPair(before) = {} THEN 1 ELSE 0)

C9_BothOrdersOneRow ==
    \E w \in Workers :
        /\ pc[w] = "idle"
        /\ loc[w].op = "record_cooccurrence"
        /\ \E i \in DOMAIN cooc :
             /\ cooc[i].entity_a_id = 1
             /\ cooc[i].entity_b_id = 2
             /\ cooc[i].cooccurrence_count = 2
             /\ loc[w].args = <<2, 1>>
             /\ loc[w].existing = i

----------------------------------------------------------------------------
(* The tree: nodes under any parent id, pruned by score and by rank        *)

Thresholds == {40, 50}

NextTree ==
    \E w \in {"w1"} :
        \/ \E id \in NodeIds, p \in {NoParent} \cup NodeIds, s \in Scores :
              create_node(w, id, p, s, 0, "None", 0)
        \/ \E n \in 1..MaxKeep, p \in PruneParents : keep_best_n_select(w, n, p)
        \/ keep_best_n_delete(w)
        \/ \E t \in Thresholds : prune_low_score_nodes(w, t)

SpecTree == Init /\ [][NextTree]_vars

(* C11: every parent id that a stored node carries is the id of a stored   *)
(* node, and no node is among its own descendants.                         *)
C11_ParentsAreStored ==
    \A i \in DOMAIN nodes :
        /\ nodes[i].parent # NoParent => nodes[i].parent \in DOMAIN nodes
        /\ i \notin DescendantsIn(nodes, i)

(* C12: when keep_best_n has returned, every node that was stored is still *)
(* stored, and the nodes of the scope that it did not select have status   *)
(* pruned.                                                                 *)
C12_PrunedAreRetained ==
    \A w \in Workers :
        (pc[w] = "idle" /\ loc[w].op = "keep_best_n" /\ loc[w].out = "returned") =>
            /\ DOMAIN nodes = DOMAIN loc[w].pre
            /\ \A i \in ScopeIn(loc[w].pre, loc[w].parent) \ loc[w].keep :
                 nodes[i].status = "pruned"

----------------------------------------------------------------------------
(* Circuit-break checks: node 1 and its children, created one after the    *)
(* other with ids in the order of their creation, in the same second as    *)
(* the node before or in a later one                                       *)

MaxThreshold == 2
ScoreThreshold == 50

NextCircuit ==
    \E w \in {"w1"} :
        \/ \E id \in {Cardinality(DOMAIN nodes) + 1} \cap NodeIds,
              p \in {NoParent, 1}, s \in Scores, tick \in {0, 1} :
              create_node(w, id, p, s, 0, "None", tick)
        \/ \E k \in 1..MaxThreshold : check_circuit_break(w, 1, k, ScoreThreshold)

SpecCircuit == Init /\ [][NextCircuit]_vars

(* C13: check_circuit_break answers insufficient_data, with should_break   *)
(* false, exactly when the node has fewer than consecutive_threshold       *)
(* children, whatever their scores, and it leaves every stored row as it   *)
(* was.                                                                    *)
C13_TooFewChildrenNoBreak ==
    \A w \in Workers :
        loc[w].op = "check_circuit_break" =>
            LET kids == {i \in DOMAIN loc[w].pre : loc[w].pre[i].parent = loc[w].node}
            IN /\ nodes = loc[w].pre
               /\ (Cardinality(kids) < loc[w].n) <=> (loc[w].out = "insufficient_data")
               /\ Cardinality(kids) < loc[w].n => ~loc[w].should_break

C13_LowScoresButTooFew ==
    \E w \in Workers :
        /\ loc[w].op = "check_circuit_break"
        /\ loc[w].out = "insufficient_data"
        /\ loc[w].n = 2
        /\ \E i \in DOMAIN nodes :
             nodes[i].parent = loc[w].node /\ nodes[i].score < ScoreThreshold

(* C14: for a node with at least consecutive_threshold children,           *)
(* should_break is true exactly when each of the consecutive_threshold     *)
(* children created last has a score under score_threshold, and the        *)
(* affected nodes are then those children.  (Ids are given in the order of *)
(* creation here, so the children created last are those of highest id.)   *)
C14_BreakOnLastCreated ==
    \A w \in Workers :
        loc[w].op = "check_circuit_break" =>
            LET kids == {i \in DOMAIN nodes : nodes[i].parent = loc[w].node}
                last == {i \in kids :
                            Cardinality({j \in kids : j > i}) < loc[w].n}
            IN Cardinality(kids) >= loc[w].n =>
                 /\ loc[w].should_break <=>
                        \A i \in last : nodes[i].score < ScoreThreshold
                 /\ loc[w].should_break =>
                        {loc[w].affected[i] : i \in DOMAIN loc[w].affected} = last

----------------------------------------------------------------------------
(* The creators called again with an id that is stored: one worker creates *)
(* nodes and sessions, rescoring nodes and completing sessions in between, *)
(* so that a repeated creation finds a row that differs from its arguments *)

Topics == {"t1", "t2"}

NextCreators ==
    \E w \in {"w1"} :
        \/ \E id \in 1..2, d \in {0, 1}, m \in {"None", "dict"} :
              create_node(w, id, NoParent, 90, d, m, 0)
        \/ \E id \in 1..2 :
              update_node(w, id, None, Some(40), Some("pruned"), None)
        \/ \E sid \in Sessions, t \in Topics :
              create_session(w, sid, t, "dict")
        \/ \E sid \in Sessions : complete_session(w, sid, 0)

SpecCreators == Init /\ [][NextCreators]_vars

C18_TrueOnlyForStoredRow ==
    \A w \in Workers :
        /\ (loc[w].op = "update_node" /\ loc[w].out = "true") =>
               loc[w].node \in DOMAIN nodes
        /\ (loc[w].op = "complete_session" /\ loc[w].out = "true") =>
               loc[w].sess \in DOMAIN sessions

\* C16: an operation that ended by raising has left the table nodes as it
\* was when the operation began: what it wrote before the statement that
\* raised is rolled back.
C16_RaisedOperationLeftNoWrite ==
    \A w \in Workers :
        (pc[w] = "idle" /\ loc[w].out = "raised") =>
            \A i \in DOMAIN loc[w].pre \cup DOMAIN nodes :
                /\ i \in DOMAIN loc[w].pre \cap DOMAIN nodes
                /\ nodes[i] = loc[w].pre[i]

----------------------------------------------------------------------------
(* Two workers extend the budget of node 1, each call asking for one or    *)
(* two more levels and ten or twenty more tokens, up to MaxExtension       *)
(* levels asked for by a worker.                                           *)

MaxExtension == 3

NextBudget ==
    \/ \E id \in {Cardinality(DOMAIN nodes) + 1} \cap {1}, m \in {"None", "dict"} :
          create_node("w1", id, NoParent, 90, 0, m, 0)
    \/ \E w \in Workers :
          \/ \E id \in 1..2, d \in 1..2 :
                /\ loc[w].sum_depth + d <= MaxExtension
                /\ extend_branch_budget_get(w, id, d, 10 * d)
          \/ extend_branch_budget_update(w)

SpecBudget == Init /\ [][NextBudget]_vars

\* C17: whenever no extension is under way, the extended_depth and the
\* extended_tokens of node 1 are the sums of what the calls that returned
\* True asked for.
C17_ExtensionsAddUp ==
    (1 \in DOMAIN nodes /\ \A w \in Workers : pc[w] = "idle") =>
        LET meta == IF nodes[1].meta.null THEN MetaDict({}) ELSE nodes[1].meta
        IN /\ meta.extended_depth = loc["w1"].sum_depth + loc["w2"].sum_depth
           /\ meta.extended_tokens = loc["w1"].sum_tokens + loc["w2"].sum_tokens

----------------------------------------------------------------------------
(* Two workers call create_entity in one session, with the same names       *)

NextEntityRace ==
    \E w \in Workers :
        \/ \E x \in Names : create_entity_resolve(w, "s1", x)
        \/ create_entity_select(w)
        \/ create_entity_insert(w)

SpecEntityRace == Init /\ [][NextEntityRace]_vars

\* C19: a session holds at most one entity row for a canonical name, and
\* every call of create_entity for that name in the session was handed the
\* id of that row, whichever worker made it.
C19_OneRowPerCanonicalName ==
    /\ \A i \in DOMAIN entities :
         Cardinality(EntitiesNamed(entities, entities[i].session_id, entities[i].name)) = 1
    /\ \A h \in handed :
         EntitiesNamed(entities, h.session_id, h.canonical) = {h.id}

----------------------------------------------------------------------------
(* Currency amounts written with different magnitude suffixes: one         *)
(* trillion dollars written three ways, two trillion dollars written two   *)
(* ways, imported one fact at a time                                       *)

OneTrillion ==
    {<<"$", "1", "T">>,
     <<"$", "1", "0", "0", "0", "B">>,
     <<"$", "1", ",", "0", "0", "0", ",", "0", "0", "0", "M">>}

TwoTrillion ==
    {<<"$", "2", "T">>,
     <<"$", "2", "0", "0", "0", " ", "b", "i", "l", "l", "i", "o", "n">>}

EqualAmounts == {OneTrillion, TwoTrillion}

NextCurrency ==
    \E w \in {"w1"} :
        \E v \in UNION EqualAmounts, tick \in {0, 1} :
            create_facts_from_json(w, "s1", <<Item("AI Market", "size", v, None, None, None)>>,
                                   <<tick>>)

SpecCurrency == Init /\ [][NextCurrency]_vars

\* C20: two facts whose values are the same amount of dollars, written with
\* whatever magnitude suffixes, have the same value_numeric.
C20_SameAmountSameNumeric ==
    \A i \in DOMAIN facts, j \in DOMAIN facts :
        (\E amount \in EqualAmounts : facts[i].value \in amount /\ facts[j].value \in amount) =>
            facts[i].value_numeric = facts[j].value_numeric

----------------------------------------------------------------------------
(* One pair of entities recorded again and again, in either argument       *)
(* order, up to MaxCalls times: more calls than snippets are kept          *)

MaxCalls == 12

NextCoocLog ==
    \E w \in {"w1"} :
        \/ \E p \in {<<1, 2>>, <<2, 1>>}, c \in Contexts :
             /\ CountBelow(cooc, p[1], p[2], MaxCalls)
             /\ record_cooccurrence_select(w, p[1], p[2], c)
        \/ record_cooccurrence_write(w)

SpecCoocLog == Init /\ [][NextCoocLog]_vars

\* C21: when k calls of record_cooccurrence for the pair have returned, the
\* row of the pair counts k and holds the contexts of the last min(k, 10)
\* calls in the order of the calls, never more than 10.
C21_CountAndLastSnippets ==
    \A w \in {"w1"} :
        (pc[w] = "idle" /\ loc[w].log # << >>) =>
            LET k == Len(loc[w].log)
                kept == IF k <= 10 THEN k ELSE 10
            IN /\ Len(cooc) = 1
               /\ cooc[1].cooccurrence_count = k
               /\ Len(cooc[1].context_snippets) <= 10
               /\ cooc[1].context_snippets = SubSeq(loc[w].log, k - kept + 1, k)

\* twelve calls have returned, the first two of them with a context that
\* the row no longer holds
C21_OldestSnippetsDropped ==
    /\ pc["w1"] = "idle"
    /\ Len(loc["w1"].log) = 12
    /\ loc["w1"].log[1] = "c1" /\ loc["w1"].log[2] = "c1"
    /\ \A i \in 3..12 : loc["w1"].log[i] = "c2"
    /\ Len(cooc) = 1
    /\ cooc[1].context_snippets = [i \in 1..10 |-> "c2"]

----------------------------------------------------------------------------
(* The entity graph: up to three entities of one session and up to         *)
(* MaxEdges edges between any ids from 1 to 3, self-loops, cycles, parallel *)
(* edges and edges to ids that are not stored included; an edge to a       *)
(* higher id is a "partner" edge, the others are "rival" edges.  The walks *)
(* start at "OpenAI", which may be any of the three entities.              *)

GraphNames == {"OpenAI", "Microsoft", "Anthropic"}
RelationType(a, b) == IF a < b THEN "partner" ELSE "rival"
MaxHops == 2

NextGraph ==
    \E w \in {"w1"} :
        \/ \E x \in GraphNames : create_entity_resolve(w, "s1", x)
        \/ create_entity_select(w)
        \/ create_entity_insert(w)
        \/ \E a \in 1..3, b \in 1..3 :
              create_entity_edge(w, "s1", a, b, RelationType(a, b))
        \/ \E dir \in {"outgoing", "incoming", "both"}, d \in 0..MaxHops :
              get_related_entities(w, "s1", "OpenAI", None, dir, d)
        \/ get_related_entities(w, "s1", "OpenAI", Some("partner"), "both", MaxHops)

SpecGraph == Init /\ [][NextGraph]_vars

\* C22: when get_related_entities(session, name, depth = d) has returned,
\* its results hold no entity twice and not the start entity, and every
\* result has a depth from 1 to d and a path of relation types as long as
\* its depth, ending with the relation type of the result.
C22_EachEntityOnceWithinDepth ==
    \A w \in Workers :
        loc[w].op = "get_related_entities" =>
            LET results == loc[w].results
            IN /\ \A i \in DOMAIN results, j \in DOMAIN results :
                     results[i].id = results[j].id => i = j
               /\ \A i \in DOMAIN results :
                     /\ results[i].id # loc[w].id
                     /\ results[i].id \in DOMAIN entities
                     /\ results[i].depth \in 1..loc[w].depth
                     /\ Len(results[i].path) = results[i].depth
                     /\ results[i].path[results[i].depth] = results[i].relation_type

\* a walk of two hops in both directions, on a graph in which the start
\* entity and a neighbour have an edge to each other (a cycle), which found
\* a third entity at the second hop
C22_CycleWalked ==
    \E w \in Workers :
        /\ loc[w].op = "get_related_entities"
        /\ loc[w].depth = 2
        /\ Len(loc[w].results) = 2
        /\ loc[w].results[2].depth = 2
        /\ \E e \in DOMAIN edges, f \in DOMAIN edges :
              /\ edges[e].source_entity_id = loc[w].id
              /\ edges[e].target_entity_id = loc[w].results[1].id
              /\ edges[f].source_entity_id = loc[w].results[1].id
              /\ edges[f].target_entity_id = loc[w].id


----------------------------------------------------------------------------
(* Deleting a session: one worker creates sessions and rows of every       *)
(* dependent table for them, deletes sessions and looks them up.           *)

MaxOwned == 2

NextDelete ==
    \E w \in {"w1"} :
        \/ \E s \in Sessions : create_session(w, s, "t1", "None")
        \/ \E s \in Sessions :
             /\ Len(facts) < MaxOwned
             /\ create_fact(w, s, "E", "A", Value10, "text", None, None, 1)
        \/ add_fact_source(w, 1, "u1")
        \/ create_conflict(w, 1, 2, "numerical", "minor")
        \/ \E s \in Sessions :
             /\ entities = << >>
             /\ create_entity_resolve(w, s, "OpenAI")
        \/ create_entity_select(w)
        \/ create_entity_insert(w)
        \/ \E s \in Sessions :
             /\ edges = << >>
             /\ create_entity_edge(w, s, 1, 2, "partner")
        \/ /\ cooc = << >>
           /\ record_cooccurrence_select(w, 1, 2, "c1")
        \/ record_cooccurrence_write(w)
        \/ \E s \in Sessions : delete_session(w, s)
        \/ \E s \in Sessions : get_session(w, s)

SpecDelete == Init /\ [][NextDelete]_vars

----------------------------------------------------------------------------
(* The status of a session: two workers create sessions and complete them,  *)
(* in the same second as the latest completion or in a later one.           *)

MaxClock == 2

NextSessions ==
    \E w \in Workers :
        \/ \E s \in Sessions, t \in Topics : create_session(w, s, t, "None")
        \/ \E s \in Sessions, tick \in {0, 1} :
             /\ LatestCompleted(sessions) + tick <= MaxClock
             /\ complete_session(w, s, tick)

SpecSessions == Init /\ [][NextSessions]_vars

\* C24: the status of a stored session changes only from one status of the
\* lifecycle to the next or from a status that is not terminal to failed, a
\* completed or failed session keeps its status, and completed_at is written
\* by exactly the steps that take the session to completed.  (The statuses
\* are written here as the store writes its statuses, in lower case.)
C24_StatusFollowsLifecycle ==
    [][\A s \in DOMAIN sessions \cap DOMAIN sessions' :
          LET SessionLifecycle == <<"initializing", "planning", "executing",
                                    "synthesizing", "validating", "completed">>
              old == sessions[s].status
              new == sessions'[s].status
          IN /\ old # new =>
                  \/ \E i \in 1..(Len(SessionLifecycle) - 1) :
                        old = SessionLifecycle[i] /\ new = SessionLifecycle[i + 1]
                  \/ old \notin {"completed", "failed"} /\ new = "failed"
             /\ old \in {"completed", "failed"} => new = old
             /\ sessions'[s].completed_at # sessions[s].completed_at
                  <=> (old # "completed" /\ new = "completed")]_vars

----------------------------------------------------------------------------
(* The status of an agent: two workers register agents and report their    *)
(* status and action; either may clear the store.                          *)

AgentIds == {"a1", "a2"}
AgentStatuses == {"running", "completed", "failed", "timeout"}

NextAgents ==
    \E w \in Workers :
        \/ \E a \in AgentIds, tick \in {0, 1} :
             /\ LatestSeen(agents) + tick <= MaxClock
             /\ register_agent(w, a, "None", tick)
        \/ \E a \in AgentIds, st \in {None} \cup {Some(x) : x \in AgentStatuses},
              act \in {None, Some("search")}, tick \in {0, 1} :
             /\ LatestSeen(agents) + tick <= MaxClock
             /\ update_agent_heartbeat(w, a, act, st, tick)
        \/ clear_all(w)

SpecAgents == Init /\ [][NextAgents]_vars

\* C25: a step that inserts an agent inserts it with status deploying; the
\* status of a stored agent changes only from deploying to running and from
\* running to completed, failed or timeout, so an agent in one of these three
\* keeps its status whatever is called; and no step removes an agent while
\* it leaves a session or another agent in the store.  (The statuses are
\* written here as the store writes its statuses, in lower case.)
C25_AgentStatusFollowsLifecycle ==
    [][/\ \A a \in DOMAIN agents' \ DOMAIN agents : agents'[a].status = "deploying"
       /\ \A a \in DOMAIN agents \cap DOMAIN agents' :
             LET old == agents[a].status
                 new == agents'[a].status
             IN /\ old # new =>
                     \/ old = "deploying" /\ new = "running"
                     \/ old = "running" /\ new \in {"completed", "failed", "timeout"}
                /\ old \in {"completed", "failed", "timeout"} => new = old
       /\ DOMAIN agents \subseteq DOMAIN agents'
             \/ (DOMAIN agents' = {} /\ DOMAIN sessions' = {})]_vars

----------------------------------------------------------------------------
(* Writes after completion: one worker creates sessions, completes them    *)
(* and writes facts, sources, conflicts, entities, edges and               *)
(* co-occurrences for them, before and after.                              *)

NextFrozen ==
    \E w \in {"w1"} :
        \/ \E s \in Sessions : create_session(w, s, "t1", "None")
        \/ \E s \in Sessions : complete_session(w, s, 0)
        \/ \E s \in Sessions :
             /\ Len(facts) < MaxOwned
             /\ create_fact(w, s, "E", "A", Value10, "text", None, None, 1)
        \/ add_fact_source(w, 1, "u1")
        \/ create_conflict(w, 1, 2, "numerical", "minor")
        \/ resolve_conflict(w, 1, "r1")
        \/ \E s \in Sessions :
             /\ entities = << >>
             /\ create_entity_resolve(w, s, "OpenAI")
        \/ create_entity_select(w)
        \/ create_entity_insert(w)
        \/ \E s \in Sessions :
             /\ edges = << >>
             /\ create_entity_edge(w, s, 1, 2, "partner")
        \/ /\ cooc = << >>
           /\ record_cooccurrence_select(w, 1, 2, "c1")
        \/ record_cooccurrence_write(w)

SpecFrozen == Init /\ [][NextFrozen]_vars

\* C26: a step taken while a session is completed or failed leaves the
\* facts, entities and edges of the session, the sources of its facts and
\* the co-occurrences of its entities as they are, none added, none changed
\* and none gone, and changes of the conflicts of its facts nothing but the
\* resolution.
C26_TerminalSessionIsFrozen ==
    [][\A s \in DOMAIN sessions :
          sessions[s].status \in {"completed", "failed"} =>
            LET fs == {i \in DOMAIN facts : facts[i].session_id = s}
                es == {i \in DOMAIN entities : entities[i].session_id = s}
            IN /\ {i \in DOMAIN facts' : facts'[i].session_id = s} = fs
               /\ \A i \in fs : facts'[i] = facts[i]
               /\ {i \in DOMAIN entities' : entities'[i].session_id = s} = es
               /\ \A i \in es : entities'[i] = entities[i]
               /\ {i \in DOMAIN edges' : edges'[i].session_id = s}
                    = {i \in DOMAIN edges : edges[i].session_id = s}
               /\ \A i \in DOMAIN edges : edges[i].session_id = s => edges'[i] = edges[i]
               /\ {i \in DOMAIN sources' : sources'[i].fact_id \in fs}
                    = {i \in DOMAIN sources : sources[i].fact_id \in fs}
               /\ \A i \in DOMAIN sources :
                      sources[i].fact_id \in fs => sources'[i] = sources[i]
               /\ {i \in DOMAIN conflicts' : conflicts'[i].fact_id_a \in fs
                                               \/ conflicts'[i].fact_id_b \in fs}
                    = {i \in DOMAIN conflicts : conflicts[i].fact_id_a \in fs
                                                \/ conflicts[i].fact_id_b \in fs}
               /\ \A i \in DOMAIN conflicts :
                      conflicts[i].fact_id_a \in fs \/ conflicts[i].fact_id_b \in fs =>
                          [conflicts'[i] EXCEPT !.resolution = None, !.resolved = FALSE]
                          = [conflicts[i] EXCEPT !.resolution = None, !.resolved = FALSE]
               /\ {i \in DOMAIN cooc' : cooc'[i].entity_a_id \in es
                                          \/ cooc'[i].entity_b_id \in es}
                    = {i \in DOMAIN cooc : cooc[i].entity_a_id \in es
                                           \/ cooc[i].entity_b_id \in es}
               /\ \A i \in DOMAIN cooc :
                      cooc[i].entity_a_id \in es \/ cooc[i].entity_b_id \in es =>
                          cooc'[i] = cooc[i]]_vars

\* C27: no two rows of the alias table have the same alias, so an alias
\* stands for one canonical name; and add_entity_alias with an alias that
\* is registered, for the same canonical name or another, returns False
\* (nothing is raised) and leaves the table as it is.
C27_AliasRegisteredOnce ==
    [][/\ \A r \in aliases', q \in aliases' : r.alias = q.alias => r = q
       /\ \A w \in Workers :
             (/\ loc'[w].op = "add_entity_alias"
              /\ loc'[w] # loc[w]
              /\ \E r \in aliases : r.alias = loc'[w].name) =>
                 /\ loc'[w].out = "false"
                 /\ aliases' = aliases]_vars

\* an alias registered for one canonical name has been offered for another
\* and refused
C27_AliasOfOtherNameRefused ==
    \E w \in Workers :
        /\ loc[w].op = "add_entity_alias"
        /\ loc[w].out = "false"
        /\ \E r \in aliases :
             r.alias = loc[w].name /\ r.canonical_name # loc[w].canonical

----------------------------------------------------------------------------
(* The entropy of new content: up to two new and up to two existing nodes  *)
(* with contents "the of cat" (no keyword), "data code test link",         *)
(* "Data node" and "data code test".                                       *)

NoKeywordText == <<"t", "h", "e", " ", "o", "f", " ", "c", "a", "t">>
FourKeywordText ==
    <<"d", "a", "t", "a", " ", "c", "o", "d", "e", " ", "t", "e", "s", "t", " ", "l", "i", "n", "k">>
TwoKeywordText == <<"D", "a", "t", "a", " ", "n", "o", "d", "e">>
ThreeKeywordText ==
    <<"d", "a", "t", "a", " ", "c", "o", "d", "e", " ", "t", "e", "s", "t">>
Contents == {NoKeywordText, FourKeywordText, TwoKeywordText, ThreeKeywordText}
ContentLists == {<< >>} \cup {<<c>> : c \in Contents}
                  \cup {<<c, d>> : c \in Contents, d \in Contents}

NextEntropy ==
    \E w \in {"w1"}, new_content \in ContentLists, existing_content \in ContentLists :
        calculate_information_entropy(w, new_content, existing_content)

SpecEntropy == Init /\ [][NextEntropy]_vars

\* C28: the entropy reported is the share of the new keywords that are not
\* among the existing ones, from 0 to 1; it is classified high_novelty over
\* 0.7, moderate_novelty over 0.4, low_novelty over 0.2 and
\* duplicate_content else; stop_exploration is recommended in exactly the
\* last case; and new content without a keyword that the existing content
\* lacks is reported as duplicate_content, not as novel.
C28_EntropyIsShareOfNewKeywords ==
    \A w \in Workers :
        loc[w].op = "calculate_information_entropy" =>
            LET new_keywords == _extract_keywords(JoinContents(loc[w].args[1]))
                existing_keywords == _extract_keywords(JoinContents(loc[w].args[2]))
                unique_new == new_keywords \ existing_keywords
                report == loc[w].report.v
                entropy == report.entropy
            IN /\ entropy[2] > 0 /\ 0 <= entropy[1] /\ entropy[1] <= entropy[2]
               /\ new_keywords # {} =>
                    entropy[1] * Cardinality(new_keywords)
                      = Cardinality(unique_new) * entropy[2]
               /\ report.interpretation =
                    (IF 10 * entropy[1] > 7 * entropy[2] THEN "high_novelty"
                     ELSE IF 10 * entropy[1] > 4 * entropy[2] THEN "moderate_novelty"
                     ELSE IF 10 * entropy[1] > 2 * entropy[2] THEN "low_novelty"
                     ELSE "duplicate_content")
               /\ report.recommendation = Some("stop_exploration")
                    <=> report.interpretation = "duplicate_content"
               /\ unique_new = {} => report.interpretation = "duplicate_content"

----------------------------------------------------------------------------
(* The health of a branch: worker w1 asks for the health of node 1 while   *)
(* worker w2 builds the tree under it and prunes the nodes of low score.   *)

HealthScores == {40, 75, 90}

NextHealth ==
    \/ get_branch_health_start("w1", 1)
    \/ _get_all_descendants("w1")
    \/ get_branch_health_scores("w1")
    \/ \E id \in NodeIds, sc \in HealthScores :
          \E p \in {NoParent} \cup {q \in NodeIds : q < id} :
              create_node("w2", id, p, sc, 0, "None", 0)
    \/ prune_low_score_nodes("w2", 50)

SpecHealth == Init /\ [][NextHealth]_vars

\* C29: the report of get_branch_health is unknown for a node without
\* descendants; else the four buckets (from 9, from 7, from 5, under 5)
\* count every descendant once, so they sum to node_count, the minimum is at
\* most the average and the average at most the maximum, and the
\* recommendation is continue_and_extend from an average of 8, continue from
\* 6, monitor from 4 and consider_circuit_break under 4.
C29_BucketsCountEveryDescendant ==
    \A w \in Workers :
        (loc[w].op = "get_branch_health" /\ pc[w] = "idle" /\ loc[w].out = "returned") =>
            LET report == loc[w].report.v
            IN IF loc[w].desc = {}
               THEN report.health = "unknown"
               ELSE /\ report.health # "unknown"
                    /\ report.score_distribution.excellent + report.score_distribution.good
                         + report.score_distribution.fair + report.score_distribution.poor
                         = report.node_count
                    /\ report.node_count = Cardinality(loc[w].desc)
                    /\ report.min_score * report.avg_score[2] <= report.avg_score[1]
                    /\ report.avg_score[1] <= report.max_score * report.avg_score[2]
                    /\ report.recommendation =
                         (IF report.avg_score[1] >= 80 * report.avg_score[2]
                          THEN "continue_and_extend"
                          ELSE IF report.avg_score[1] >= 60 * report.avg_score[2]
                          THEN "continue"
                          ELSE IF report.avg_score[1] >= 40 * report.avg_score[2]
                          THEN "monitor"
                          ELSE "consider_circuit_break")

----------------------------------------------------------------------------
(* Importing files with bad items: lists of up to three items, each a good *)
(* item, a good item with a source, an item that is a string, an item      *)
(* whose value is a number, an item of confidence "Sure" or an item whose  *)
(* source has quality "Z".                                                 *)

GoodItem == Item("E", "A", Value10, None, None, None)
ImportItems ==
    {GoodItem,
     GoodItem @@ [source |-> [url |-> "u1", quality |-> "A"]],
     [json |-> "string"],
     GoodItem @@ [value_is |-> "number"],
     GoodItem @@ [confidence |-> "Sure"],
     GoodItem @@ [source |-> [url |-> "u1", quality |-> "Z"]]}

NextImport ==
    \E w \in {"w1"} :
        \/ \E f \in ImportItems :
             /\ create_facts_from_json(w, "s1", <<f>>, <<1>>)
             /\ Len(sources') <= MaxSources
        \/ \E f \in ImportItems, g \in ImportItems :
             /\ create_facts_from_json(w, "s1", <<f, g>>, <<1, 0>>)
             /\ Len(sources') <= MaxSources
        \/ \E f \in ImportItems, g \in ImportItems, h \in ImportItems :
             /\ create_facts_from_json(w, "s1", <<f, g, h>>, <<1, 0, 0>>)
             /\ Len(sources') <= MaxSources

SpecImport == Init /\ [][NextImport]_vars

\* C30: create_facts_from_json goes through every item of the file in
\* order, whatever fails: an item is in errors, under its index, exactly if
\* an exception was raised for it, the errors are in the order of the file,
\* the facts of the items whose fact was inserted are stored in the order of
\* the file, total is the number of items and created + the number of errors
\* = total.
C30_EveryItemCreatedOrRecorded ==
    \A w \in Workers :
        loc[w].op = "create_facts_from_json" =>
            LET batch == loc[w].batch
                report == loc[w].report.v
                Bad(fact) ==
                    \/ "json" \in DOMAIN fact
                    \/ "value_is" \in DOMAIN fact
                    \/ "confidence" \in DOMAIN fact
                         /\ fact.confidence \notin {"High", "Medium", "Low"}
                    \/ "source" \in DOMAIN fact
                         /\ fact.source.quality \notin {"A", "B", "C", "D", "E"}
                Inserted(fact) ==
                    ~ \/ "json" \in DOMAIN fact
                      \/ "value_is" \in DOMAIN fact
                      \/ "confidence" \in DOMAIN fact
                           /\ fact.confidence \notin {"High", "Medium", "Low"}
                inserted == SelectSeq(batch, Inserted)
            IN /\ report.total = Len(batch)
               /\ report.created + Len(report.errors) = report.total
               /\ \A k \in 1..Len(batch) :
                    Bad(batch[k]) <=>
                        \E e \in 1..Len(report.errors) :
                            report.errors[e] = [index |-> k - 1, fact |-> batch[k]]
               /\ \A e \in 1..Len(report.errors), f \in 1..Len(report.errors) :
                    e < f => report.errors[e].index < report.errors[f].index
               /\ Len(facts) = loc[w].id + Len(inserted)
               /\ \A k \in 1..Len(inserted) :
                    /\ facts[loc[w].id + k].session_id = loc[w].sess
                    /\ facts[loc[w].id + k].value = inserted[k].value

\* a file of three items whose second item failed: the first and the third
\* were created, the second is the one error
C30_ImportWentOnAfterBadItem ==
    \E w \in Workers :
        /\ loc[w].op = "create_facts_from_json"
        /\ Len(loc[w].batch) = 3
        /\ loc[w].report.v.created = 2
        /\ Len(loc[w].report.v.errors) = 1
        /\ loc[w].report.v.errors[1].index = 1
        /\ Len(facts) = loc[w].id + 2


----------------------------------------------------------------------------
(* Best-N pruning of nodes created at different seconds: every create_node *)
(* advances CURRENT_TIMESTAMP by a second, so every two nodes have a       *)
(* creation order that their created_at shows.  The clock is read off the  *)
(* latest stored row and stops at MaxNodes seconds.                        *)

NextTies ==
    \/ \E id \in NodeIds, p \in PruneParents, s \in Scores :
          /\ LatestNode(nodes) < MaxNodes
          /\ create_node("w1", id, p, s, 0, "None", 1)
    \/ \E n \in 0..MaxKeep, p \in PruneParents :
          keep_best_n_select("w1", n, p)
    \/ keep_best_n_delete("w1")

SpecTies == Init /\ [][NextTies]_vars

(* C31: when keep_best_n has returned, the ids it selected to keep are the *)
(* first of its scope by score, highest first, and among equal scores by   *)
(* creation, earliest first: no row of the scope that was left out comes   *)
(* before a selected row in that order.                                    *)

----------------------------------------------------------------------------
(* Checkpoint recovery (scripts/resume_research.py).  The script works on  *)
(* the store of sessions with a status and an output directory and of      *)
(* agents that belong to a session: get_session, get_session_agents,       *)
(* update_agent_status and the enumerations SessionStatus and AgentStatus  *)
(* are imported from scripts/state_manager.py, which does not hold them;   *)
(* they are modelled as the design document states them.  Whether          *)
(* processed/fact_ledger.md and processed/synthesis.md exist is read from  *)
(* the file system by every call and is an input of the call.              *)

\* INITIALIZING -> PLANNING -> EXECUTING -> SYNTHESIZING -> VALIDATING ->
\* {COMPLETED | FAILED}
SessionStatus ==
    {"initializing", "planning", "executing", "synthesizing", "validating",
     "completed", "failed"}

\* DEPLOYING -> RUNNING -> {COMPLETED | FAILED | TIMEOUT}
AgentStatus == {"deploying", "running", "completed", "failed", "timeout"}

ResearchSession(status, output_directory) ==
    [status |-> status, output_directory |-> output_directory]

ResearchAgent(session_id, status) == [session_id |-> session_id, status |-> status]

\* create(session) fails with DuplicateKey if the id exists
create_research_session(w, session_id, status, output_directory) ==
    /\ pc[w] = "idle"
    /\ sessions' = IF Stored(sessions, session_id) THEN sessions
                   ELSE sessions @@
                        (session_id :> ResearchSession(status, output_directory))
    /\ loc' = [loc EXCEPT ![w] = [IdleLoc EXCEPT
                    !.op = "create_session", !.sess = session_id,
                    !.out = IF Stored(sessions, session_id) THEN "raised" ELSE "true"]]
    /\ Counted(w, IF Stored(sessions, session_id) THEN 0 ELSE 1)
    /\ UNCHANGED <<client, handleTables, pc, nodeTables, factTables, entityTables, agents>>

\* register(agent) inserts with DEPLOYING
register_research_agent(w, agent_id, session_id) ==
    /\ pc[w] = "idle"
    /\ agents' = [a \in DOMAIN agents \cup {agent_id} |->
                    IF a = agent_id THEN ResearchAgent(session_id, "deploying")
                    ELSE agents[a]]
    /\ loc' = [loc EXCEPT ![w] = [IdleLoc EXCEPT !.op = "register_agent",
                                  !.name = agent_id, !.sess = session_id,
                                  !.out = "true"]]
    /\ Counted(w, 1)
    /\ UNCHANGED <<client, handleTables, pc, nodeTables, factTables, entityTables, sessions>>

\* update_status(id, status, error?)
update_agent_status(w, agent_id, status) ==
    /\ pc[w] = "idle"
    /\ agents' = IF Stored(agents, agent_id)
                 THEN [agents EXCEPT ![agent_id].status = status] ELSE agents
    /\ loc' = [loc EXCEPT ![w] = [IdleLoc EXCEPT
                    !.op = "update_agent_status", !.name = agent_id,
                    !.out = IF Stored(agents, agent_id) THEN "true" ELSE "false"]]
    /\ Counted(w, IF Stored(agents, agent_id) THEN 1 ELSE 0)
    /\ UNCHANGED <<client, handleTables, pc, nodeTables, factTables, entityTables, sessions>>

\* the ids of the agents of a session
get_session_agents(tbl, session_id) ==
    {a \in DOMAIN tbl : tbl[a].session_id = session_id}

\* the agents whose status is one of statuses
WithStatus(tbl, ids, statuses) == {a \in ids : tbl[a].status \in statuses}

\* the dict detect_current_phase returns; a key the code does not set is
\* no field of the record
PhaseInfo(session_id, fact_ledger, synthesis_file) ==
    LET all == get_session_agents(agents, session_id)
        completed_agents == WithStatus(agents, all, {"completed"})
        failed_agents == WithStatus(agents, all, {"failed", "timeout"})
        running_agents == WithStatus(agents, all, {"running"})
        complete == [phase |-> 3,
                     completed_agents |-> Cardinality(completed_agents),
                     total_agents |-> Cardinality(all),
                     pending_agents |-> 0,
                     phase_3_complete |-> TRUE]
    IN IF all = {} THEN [phase |-> 2, completed |-> FALSE]
       ELSE IF running_agents # {}
               \/ Cardinality(completed_agents) < Cardinality(all)
       THEN [phase |-> 3,
             completed_agents |-> Cardinality(completed_agents),
             total_agents |-> Cardinality(all),
             pending_agents |-> Cardinality(all) - Cardinality(completed_agents),
             failed_agents |-> Cardinality(failed_agents)]
       ELSE IF sessions[session_id].output_directory.some
       THEN IF ~fact_ledger THEN complete @@ [fact_ledger_exists |-> FALSE]
            ELSE IF ~synthesis_file
            THEN [phase |-> 5, fact_ledger_exists |-> TRUE,
                  synthesis_exists |-> FALSE]
            ELSE [phase |-> 6, all_files_present |-> TRUE]
       ELSE complete

\* whether detect_current_phase gets as far as session.output_directory,
\* an AttributeError for a session that get_session did not find
ReadsOutputDirectory(session_id) ==
    LET all == get_session_agents(agents, session_id)
    IN /\ all # {}
       /\ WithStatus(agents, all, {"completed"}) = all

detect_current_phase(w, session_id, fact_ledger, synthesis_file) ==
    /\ pc[w] = "idle"
    /\ loc' = [loc EXCEPT ![w] =
          IF ReadsOutputDirectory(session_id) /\ ~Stored(sessions, session_id)
          THEN [IdleLoc EXCEPT !.op = "detect_current_phase",
                               !.sess = session_id, !.out = "raised"]
          ELSE [IdleLoc EXCEPT !.op = "detect_current_phase",
                               !.sess = session_id, !.out = "returned",
                               !.args = <<fact_ledger, synthesis_file>>,
                               !.report = Some(PhaseInfo(session_id, fact_ledger,
                                                         synthesis_file))]]
    /\ UNCHANGED <<client, handleTables, pc, nodeTables, factTables, entityTables, sessionTables, changed>>

\* phase_info.get(key, 0)
Get(phase_info, key) == IF key \in DOMAIN phase_info THEN phase_info[key] ELSE 0

ResumeStatus(status, phase, completed_agents, pending_agents) ==
    [status |-> status, phase |-> phase, completed_agents |-> completed_agents,
     pending_agents |-> pending_agents]

resume_from_phase_3(phase_info) ==
    IF Get(phase_info, "pending_agents") = 0
    THEN ResumeStatus("phase_3_complete", Some(3),
                      Get(phase_info, "completed_agents"), 0)
    ELSE ResumeStatus("phase_3_partial", Some(3),
                      Get(phase_info, "completed_agents"),
                      Get(phase_info, "pending_agents"))

\* a resume_research that goes on with a session of any status
every_state == SessionStatus

\* the statuses of a session that resume_research goes on with
resumable_states == {"executing", "synthesizing", "validating", "failed"}

\* what resume_research returns for a session that is stored
Resumed(session_id, fact_ledger, synthesis_file) ==
    LET status == sessions[session_id].status
        phase_info == PhaseInfo(session_id, fact_ledger, synthesis_file)
    IN IF status = "completed"
       THEN ResumeStatus("already_completed", None, 0, 0)
       ELSE IF status \notin resumable_states
       THEN ResumeStatus("not_resumable", None, 0, 0)
       ELSE IF phase_info.phase = 3 THEN resume_from_phase_3(phase_info)
       ELSE IF phase_info.phase = 5
       \* resume_from_phase_5: the dict of phase 5 says synthesis_exists False
       THEN ResumeStatus("phase_5_pending", Some(5), 0, 0)
       ELSE IF phase_info.phase >= 6
       THEN ResumeStatus("advanced_phase", Some(phase_info.phase), 0, 0)
       ELSE ResumeStatus("unknown_phase", None, 0, 0)

\* `if not session: raise ValueError`
resume_research(w, session_id, fact_ledger, synthesis_file) ==
    /\ pc[w] = "idle"
    /\ loc' = [loc EXCEPT ![w] =
          IF ~Stored(sessions, session_id)
          THEN [IdleLoc EXCEPT !.op = "resume_research",
                               !.sess = session_id, !.out = "raised"]
          ELSE [IdleLoc EXCEPT !.op = "resume_research",
                               !.sess = session_id, !.out = "returned",
                               !.args = <<fact_ledger, synthesis_file>>,
                               !.report = Some(Resumed(session_id, fact_ledger,
                                                       synthesis_file))]]
    /\ UNCHANGED <<client, handleTables, pc, nodeTables, factTables, entityTables, sessionTables, changed>>

----------------------------------------------------------------------------
(* Checkpoint recovery of two sessions and two agents: sessions are stored *)
(* in a planning, executing or completed status, with or without an output *)
(* directory, agents are registered and take every status, and the phase   *)
(* is detected and the session resumed with the ledger and synthesis files *)
(* there or not.                                                           *)

Directories == {None, Some("RESEARCH/s")}

NextResume ==
    \/ \E sid \in Sessions, st \in {"planning", "executing", "completed"},
          dir \in Directories :
          create_research_session("w1", sid, st, dir)
    \/ \E a \in AgentIds, sid \in Sessions : register_research_agent("w1", a, sid)
    \/ \E a \in AgentIds, st \in AgentStatus : update_agent_status("w1", a, st)
    \/ \E sid \in Sessions, files \in {<<FALSE, FALSE>>, <<TRUE, FALSE>>, <<TRUE, TRUE>>} :
          detect_current_phase("w1", sid, files[1], files[2])
    \/ \E sid \in Sessions, files \in {<<FALSE, FALSE>>, <<TRUE, FALSE>>, <<TRUE, TRUE>>} :
          resume_research("w1", sid, files[1], files[2])

SpecResume == Init /\ [][NextResume]_vars

(* C32: for a stored session some of whose agents are not completed,       *)
(* detect_current_phase reports phase 3 with completed_agents the number   *)
(* of completed agents and pending_agents the rest, and resume_research    *)
(* returns phase_3_partial with the same counts; when all its agents are   *)
(* completed and there is no fact ledger file they report phase 3 with     *)
(* pending 0 and phase_3_complete; for a completed session resume_research *)
(* returns already_completed.                                              *)

C32_PhaseFollowsAgentCounts ==
    \A w \in Workers :
        (loc[w].out = "returned" /\ Stored(sessions, loc[w].sess)) =>
            LET sid == loc[w].sess
                all == get_session_agents(agents, sid)
                done == WithStatus(agents, all, {"completed"})
                r == loc[w].report.v
            IN /\ (loc[w].op = "detect_current_phase" /\ done # all) =>
                      /\ r.phase = 3
                      /\ r.completed_agents = Cardinality(done)
                      /\ r.pending_agents = Cardinality(all \ done)
               /\ (loc[w].op = "detect_current_phase" /\ all # {} /\ done = all
                       /\ ~loc[w].args[1]) =>
                      (r.phase = 3 /\ r.pending_agents = 0)
               /\ (loc[w].op = "resume_research"
                       /\ sessions[sid].status = "completed") =>
                      r.status = "already_completed"
               /\ (loc[w].op = "resume_research"
                       /\ sessions[sid].status # "completed" /\ done # all) =>
                      /\ r.status = "phase_3_partial"
                      /\ r.completed_agents = Cardinality(done)
                      /\ r.pending_agents = Cardinality(all \ done)
               /\ (loc[w].op = "resume_research"
                       /\ sessions[sid].status # "completed"
                       /\ all # {} /\ done = all /\ ~loc[w].args[1]) =>
                      (r.status = "phase_3_complete" /\ r.pending_agents = 0)

(* C32, amended: the same, with resume_research returning phase_3_partial  *)
(* and phase_3_complete for a session in one of the resumable states       *)
(* (executing, synthesizing, validating, failed) only; for a session in    *)
(* another state that is not completed it returns not_resumable.           *)

C32_PhaseFollowsAgentCountsIfResumable ==
    \A w \in Workers :
        (loc[w].out = "returned" /\ Stored(sessions, loc[w].sess)) =>
            LET sid == loc[w].sess
                all == get_session_agents(agents, sid)
                done == WithStatus(agents, all, {"completed"})
                r == loc[w].report.v
                resumable == sessions[sid].status \in
                                 {"executing", "synthesizing", "validating", "failed"}
            IN /\ (loc[w].op = "detect_current_phase" /\ done # all) =>
                      /\ r.phase = 3
                      /\ r.completed_agents = Cardinality(done)
                      /\ r.pending_agents = Cardinality(all \ done)
               /\ (loc[w].op = "detect_current_phase" /\ all # {} /\ done = all
                       /\ ~loc[w].args[1]) =>
                      (r.phase = 3 /\ r.pending_agents = 0)
               /\ (loc[w].op = "resume_research"
                       /\ sessions[sid].status = "completed") =>
                      r.status = "already_completed"
               /\ (loc[w].op = "resume_research" /\ resumable /\ done # all) =>
                      /\ r.status = "phase_3_partial"
                      /\ r.completed_agents = Cardinality(done)
                      /\ r.pending_agents = Cardinality(all \ done)
               /\ (loc[w].op = "resume_research" /\ resumable
                       /\ all # {} /\ done = all /\ ~loc[w].args[1]) =>
                      (r.status = "phase_3_complete" /\ r.pending_agents = 0)
               /\ (loc[w].op = "resume_research" /\ ~resumable
                       /\ sessions[sid].status # "completed") =>
                      r.status = "not_resumable"

\* an executing session with one completed and one failed agent was
\* resumed: phase_3_partial, 1 completed, 1 pending
C32_PartialWithFailedAgent ==
    \E w \in Workers :
        /\ loc[w].op = "resume_research" /\ loc[w].out = "returned"
        /\ loc[w].report.v.status = "phase_3_partial"
        /\ loc[w].report.v.completed_agents = 1
        /\ loc[w].report.v.pending_agents = 1
        /\ \E a \in get_session_agents(agents, loc[w].sess) :
              agents[a].status = "failed"

----------------------------------------------------------------------------
(* Walks on a stored graph: a process opens a database that holds four     *)
(* entities of one session and MaxReach edges, each from an entity to one  *)
(* of a higher id, stored in any order.  The walks start at "OpenAI" and   *)
(* follow the outgoing edges of any relation type.                         *)

MaxReach == 4

ReachEntities ==
    <<EntityRow("s1", "OpenAI"), EntityRow("s1", "Microsoft"),
      EntityRow("s1", "Anthropic"), EntityRow("s1", "Google")>>

ReachEdges ==
    {EdgeRow("s1", a, b, "partner") : a \in 1..4, b \in 1..4} \cap
    {e \in [session_id : {"s1"}, source_entity_id : 1..4, target_entity_id : 1..4,
            relation_type : {"partner"}] : e.source_entity_id < e.target_entity_id}

InitReach ==
    /\ nodes = [i \in {} |-> 0]
    /\ facts = << >>
    /\ entities = ReachEntities
    /\ aliases = {}
    /\ cooc = << >>
    /\ handed = {}
    /\ pc = [w \in Workers |-> "idle"]
    /\ loc = [w \in Workers |-> IdleLoc]
    /\ obs = [w \in Workers |-> NoObs]
    /\ sessions = [i \in {} |-> 0]
    /\ changed = [w \in Workers |-> FALSE]
    /\ edges \in [1..MaxReach -> ReachEdges]
    /\ agents = [i \in {} |-> 0]
    /\ sources = << >>
    /\ conflicts = << >>
    /\ client = StartedClient
    /\ _instance = None
    /\ handles = [h \in Handles |-> None]
    /\ databases = [p \in DbPaths |-> NoFile]

NextReach ==
    \E d \in 1..MaxHops : get_related_entities("w1", "s1", "OpenAI", None, "outgoing", d)

SpecReach == InitReach /\ [][NextReach]_vars

\* the stored entities at most one edge away from one of ids, the edges
\* taken from source to target, from target to source or either way
OneHop(ids, direction) ==
    ids \cup
    {x \in DOMAIN entities :
        \E e \in DOMAIN edges :
            \/ /\ direction \in {"outgoing", "both"}
               /\ edges[e].source_entity_id \in ids
               /\ edges[e].target_entity_id = x
            \/ /\ direction \in {"incoming", "both"}
               /\ edges[e].target_entity_id \in ids
               /\ edges[e].source_entity_id = x}

RECURSIVE WithinHops(_, _, _)
WithinHops(ids, direction, d) ==
    IF d = 0 THEN ids ELSE WithinHops(OneHop(ids, direction), direction, d - 1)

(* C33: when get_related_entities(session, name, direction = "outgoing",   *)
(* depth = d) has returned, every entity that a path of at most d outgoing *)
(* edges leads to from the start entity is among its results.              *)

C33_EveryEntityWithinDepthFound ==
    \A w \in Workers :
        (loc[w].op = "get_related_entities" /\ loc[w].id # 0) =>
            \A x \in WithinHops({loc[w].id}, "outgoing", loc[w].depth) \ {loc[w].id} :
                \E i \in DOMAIN loc[w].results : loc[w].results[i].id = x

----------------------------------------------------------------------------
(* The MCP client (scripts/mcp_client.py).  _send_request runs under       *)
(* `with self.lock`, a threading.Lock, which the thread that holds it      *)
(* cannot take a second time.  It restarts the server when it finds it not *)
(* running and when writing or waiting raises an OSError (BrokenPipeError  *)
(* and TimeoutError are OSErrors); _restart_server calls _start_server,    *)
(* whose _health_check calls _send_request.  A thread's nested calls of    *)
(* _send_request are counted in loc.depth; loc.log holds, for each nested  *)
(* call, the place of the outer call that restarted the server.            *)

\* a thread calls a tool method: _send_request is entered
_send_request(t) ==
    /\ pc[t] = "idle"
    /\ pc' = [pc EXCEPT ![t] = "sr_acquire"]
    /\ loc' = [loc EXCEPT ![t] = [IdleLoc EXCEPT !.op = "_send_request", !.depth = 1]]
    /\ UNCHANGED <<client, handleTables, nodeTables, factTables, entityTables, sessionTables, changed>>

\* with self.lock: blocks until the lock is free
_send_request_lock(t) ==
    /\ pc[t] = "sr_acquire"
    /\ client.lock = NoThread
    /\ client' = [client EXCEPT !.lock = t]
    /\ pc' = [pc EXCEPT ![t] = "sr_check"]
    /\ UNCHANGED <<handleTables, loc, nodeTables, factTables, entityTables, sessionTables, changed>>

\* if not self.is_running or not self.process: self._restart_server()
_send_request_check(t) ==
    /\ pc[t] = "sr_check"
    /\ pc' = [pc EXCEPT ![t] = IF client.is_running THEN "sr_write" ELSE "restart"]
    /\ loc' = [loc EXCEPT ![t].context = "check"]
    /\ UNCHANGED <<client, handleTables, nodeTables, factTables, entityTables, sessionTables, changed>>

\* stdin.write and flush: BrokenPipeError if the process has exited
_send_request_write(t) ==
    /\ pc[t] = "sr_write"
    /\ pc' = [pc EXCEPT ![t] = IF client.process = "alive" THEN "sr_wait" ELSE "restart"]
    /\ loc' = [loc EXCEPT ![t].context = "retry"]
    /\ UNCHANGED <<client, handleTables, nodeTables, factTables, entityTables, sessionTables, changed>>

\* the thread left _send_request, by return or by an exception that
\* _send_request does not catch: the `with` gives the lock back; a nested
\* call goes on in _health_check, _start_server and _restart_server, and
\* then where the outer call restarted the server
Left(t, out) ==
    /\ client' = [client EXCEPT !.lock = NoThread]
    /\ IF loc[t].depth = 1
       THEN /\ pc' = [pc EXCEPT ![t] = "idle"]
            /\ loc' = [loc EXCEPT ![t].out = out, ![t].depth = 0]
       ELSE /\ pc' = [pc EXCEPT ![t] =
                         IF Head(loc[t].log) = "check" THEN "sr_write" ELSE "sr_acquire"]
            /\ loc' = [loc EXCEPT ![t].log = Tail(@),
                                  ![t].depth = IF Head(loc[t].log) = "check"
                                               THEN @ - 1 ELSE @]

\* response_queue[request_id].get(timeout): the response (returned, or
\* RuntimeError if it holds an error), or Empty after the timeout, which is
\* raised as TimeoutError and caught with the OSErrors
_send_request_wait(t, response) ==
    /\ pc[t] = "sr_wait"
    /\ response # "Empty" => client.process = "alive"
    /\ IF response = "Empty"
       THEN /\ pc' = [pc EXCEPT ![t] = "restart"]
            /\ UNCHANGED <<client, handleTables, loc>>
       ELSE Left(t, response)
    /\ UNCHANGED <<handleTables, nodeTables, factTables, entityTables, sessionTables, changed>>

\* _restart_server: the old process is killed, is_running = False, the
\* response queues are cleared; then _start_server
_restart_server(t) ==
    /\ pc[t] = "restart"
    /\ client' = [client EXCEPT !.process = "dead", !.is_running = FALSE]
    /\ pc' = [pc EXCEPT ![t] = "start"]
    /\ UNCHANGED <<handleTables, loc, nodeTables, factTables, entityTables, sessionTables, changed>>

\* _start_server: Popen, is_running = True, the reader thread, and
\* _health_check, which calls _send_request("cache-stats"); if Popen raises,
\* is_running = False and RuntimeError is raised, which nothing catches
_start_server(t, started) ==
    /\ pc[t] = "start"
    /\ IF started
       THEN /\ client' = [client EXCEPT !.process = "alive", !.is_running = TRUE]
            /\ pc' = [pc EXCEPT ![t] = "sr_acquire"]
            /\ loc' = [loc EXCEPT ![t].depth = @ + 1,
                                  ![t].log = <<loc[t].context>> \o @]
       ELSE /\ pc' = [pc EXCEPT ![t] = "idle"]
            /\ client' = [client EXCEPT !.is_running = FALSE, !.lock = NoThread]
            /\ loc' = [loc EXCEPT ![t].out = "RuntimeError", ![t].depth = 0]
    /\ UNCHANGED <<handleTables, nodeTables, factTables, entityTables, sessionTables, changed>>

\* the server process exits
server_exits ==
    /\ client.process = "alive"
    /\ client' = [client EXCEPT !.process = "dead"]
    /\ UNCHANGED <<handleTables, pc, loc, nodeTables, factTables, entityTables, sessionTables, changed>>

\* close(): is_running = False, the process is terminated
close(t) ==
    /\ pc[t] = "idle"
    /\ client.is_running
    /\ client' = [client EXCEPT !.process = "dead", !.is_running = FALSE]
    /\ loc' = [loc EXCEPT ![t] = [IdleLoc EXCEPT !.op = "close"]]
    /\ UNCHANGED <<handleTables, pc, nodeTables, factTables, entityTables, sessionTables, changed>>

----------------------------------------------------------------------------
(* Two threads call tools of one client while the server may exit and the  *)
(* client may be closed.  A thread that can take a step takes it in the    *)
(* end (threads are scheduled fairly); the server need not exit.           *)

Responses == {"result", "RuntimeError", "Empty"}

ThreadStep(t) ==
    \/ _send_request(t)
    \/ _send_request_lock(t)
    \/ _send_request_check(t)
    \/ _send_request_write(t)
    \/ \E response \in Responses : _send_request_wait(t, response)
    \/ _restart_server(t)
    \/ \E started \in BOOLEAN : _start_server(t, started)

NextClient ==
    \/ \E t \in Workers : ThreadStep(t)
    \/ \E t \in Workers : close(t)
    \/ server_exits

SpecClient ==
    Init /\ [][NextClient]_vars /\ \A t \in Workers : WF_vars(pc[t] # "idle" /\ ThreadStep(t))

(* C34: a call of _send_request that has begun ends, with a result or an   *)
(* exception, whatever happens to the server: no thread stays inside the   *)
(* call forever.                                                           *)

C34_CallNeverBlocksForever ==
    \A t \in Workers : (pc[t] # "idle") ~> (pc[t] = "idle")

----------------------------------------------------------------------------
(* parse_value on every string of up to MaxValueLen characters of a "$", a *)
(* digit, a point, a "%", a suffix letter, a blank and a letter that is no *)
(* suffix, and on a year, an ISO date and a verbose date.                  *)

MaxValueLen == 3

ValueChars == {"$", "7", ".", "%", "k", " ", "x"}

Year2024 == <<"2", "0", "2", "4">>
IsoDate == <<"2", "0", "2", "4", "-", "0", "1", "-", "1", "5">>
VerboseDate == <<"M", "a", "y", " ", "5", ",", " ", "2", "0", "2", "4">>

ValueStrings ==
    UNION {[1..n -> ValueChars] : n \in 0..MaxValueLen}
    \cup {Year2024, IsoDate, VerboseDate}

\* a call of FactLedger.parse_value; the tuple it returns is kept in report
parse_value_call(w, value) ==
    /\ pc[w] = "idle"
    /\ loc' = [loc EXCEPT ![w] = [IdleLoc EXCEPT !.op = "parse_value",
                                  !.args = <<value>>,
                                  !.report = Some(parse_value(value))]]
    /\ UNCHANGED <<client, handleTables, pc, nodeTables, factTables, entityTables, sessionTables, changed>>

NextParse == \E v \in ValueStrings : parse_value_call("w1", v)

SpecParse == Init /\ [][NextParse]_vars

(* C35: parse_value returns, for a stripped value, the type its pattern    *)
(* names: currency for an amount with a "$" before it or a magnitude       *)
(* suffix after it, percentage for a number followed by "%", date without  *)
(* a numeric value for an ISO date, a four-digit year and a verbose date,  *)
(* number for a number without "$" and suffix, and text with neither       *)
(* numeric value nor unit for every other string.                          *)

C35_TypeIsWhatThePatternNames ==
    \A w \in Workers :
        loc[w].op = "parse_value" =>
            LET v == strip(loc[w].args[1])
                r == loc[w].report.v
                cur == CurrencyMatch(v)
                amount == /\ cur.ok /\ float(cur.num).ok
                          /\ (v[1] = "$" \/ cur.suffix # << >>)
                percent == PercentMatch(v).ok /\ float(PercentMatch(v).num).ok
                number == PlainMatch(v) /\ float(v).ok
            IN /\ amount => r.value_type = "currency"
               /\ percent => r.value_type = "percentage"
               /\ DateMatch(v) => (r.value_type = "date" /\ r.numeric = None)
               /\ (number /\ ~DateMatch(v)) => r.value_type = "number"
               /\ (~amount /\ ~percent /\ ~DateMatch(v) /\ ~number) =>
                      r = ParseResult(None, "text", None)

(* C36: the conflict_type and the severity of a group that                 *)
(* detect_conflicts reports agree, whatever the order the facts were       *)
(* created in: a critical or moderate group is typed numerical, a group    *)
(* with at least two numeric values (0 included) is typed numerical, and a *)
(* group typed scope has no numeric value.                                 *)

C36_TypeAgreesWithSeverity ==
    \A w \in Workers :
        loc[w].op = "detect_conflicts" =>
            \A c \in loc[w].ret :
                LET numeric == {i \in c.facts : facts[i].value_numeric.some}
                IN /\ c.severity \in {"critical", "moderate"} => c.conflict_type = "numerical"
                   /\ Cardinality(numeric) >= 2 => c.conflict_type = "numerical"
                   /\ c.conflict_type = "scope" => numeric = {}

(* C37: after any sequence of add_entity_alias calls, resolving a resolved *)
(* name changes nothing: get_canonical_name(get_canonical_name(x)) is      *)
(* get_canonical_name(x) for every name x.                                 *)

C37_ResolutionIdempotent ==
    \A x \in Names :
        get_canonical_name(aliases, get_canonical_name(aliases, x))
            = get_canonical_name(aliases, x)

(* C38: within one session create_entity returns the same id every time it *)
(* is called with the same name, whatever add_entity_alias calls are made  *)
(* in between.                                                             *)

C38_SameIdForSameName ==
    \A g \in handed, h \in handed :
        (g.session_id = h.session_id /\ g.name = h.name) => g.id = h.id

(* C39: the created count of create_facts_from_json is the number of fact  *)
(* rows the import added: an item reported in errors leaves no fact row    *)
(* behind, and an item counted as created is stored together with its      *)
(* source.                                                                 *)

C39_CreatedCountsTheRowsAdded ==
    \A w \in Workers :
        loc[w].op = "create_facts_from_json" =>
            LET report == loc[w].report.v
                failed == {report.errors[e].index + 1 : e \in 1..Len(report.errors)}
                added == (loc[w].id + 1)..Len(facts)
                good == {k \in 1..Len(loc[w].batch) : k \notin failed}
            IN /\ report.created = Cardinality(added)
               /\ Cardinality(added) = Cardinality(good)
               /\ Cardinality({k \in good : "source" \in DOMAIN loc[w].batch[k]})
                    = Cardinality({i \in DOMAIN sources : sources[i].fact_id \in added})

----------------------------------------------------------------------------
(* Store handles (StateManager.__new__, __init__, _get_connection).        *)
(* StateManager(db_path) runs __new__, which makes an instance only when   *)
(* the class has none and returns the class's instance otherwise, and      *)
(* then __init__ on what __new__ returned, which returns at once when the  *)
(* instance is initialized and else sets db_path and creates the schema.   *)
(* A handle keeps the reference it was given (self) and, as history, the   *)
(* db_path it was constructed with.                                        *)

Instance(db_path) == [db_path |-> db_path]

StateManager(h, db_path) ==
    LET made == Instance(IF db_path = None THEN DefaultDb ELSE db_path.v)
        self == IF _instance = None THEN made ELSE _instance.v
    IN /\ handles[h] = None
       /\ _instance' = Some(self)
       /\ databases' = IF _instance = None
                       THEN [databases EXCEPT ![self.db_path].exists = TRUE]
                       ELSE databases
       /\ handles' = [handles EXCEPT ![h] =
                         Some([self |-> self,
                               constructed_for |-> made.db_path])]
       /\ UNCHANGED <<client, pc, loc, nodeTables, factTables, entityTables,
                      sessionTables, changed>>

\* sqlite3.connect(self.db_path): the file a handle's connections open
_get_connection(handle) == handle.self.db_path

\* create_node through a handle: the INSERT into nodes of the file the
\* connection opens (sqlite3.connect creates a file that does not exist); a
\* second row of one id raises IntegrityError
create_node_through(w, h, node_id) ==
    /\ pc[w] = "idle"
    /\ handles[h] # None
    /\ LET db == _get_connection(handles[h].v)
           dup == node_id \in databases[db].nodes
       IN /\ databases' = IF dup THEN databases
                          ELSE [databases EXCEPT ![db].exists = TRUE,
                                                 ![db].nodes = @ \cup {node_id}]
          /\ loc' = [loc EXCEPT ![w] = [IdleLoc EXCEPT !.op = "create_node",
                                        !.args = <<h, node_id>>,
                                        !.out = IF dup THEN "raised" ELSE "returned"]]
    /\ UNCHANGED <<client, _instance, handles, pc, nodeTables, factTables, entityTables,
                   sessionTables, changed>>

\* get_node through a handle: the row of that id in the file the connection
\* opens, or None
get_node_through(w, h, node_id) ==
    /\ pc[w] = "idle"
    /\ handles[h] # None
    /\ LET db == _get_connection(handles[h].v)
       IN loc' = [loc EXCEPT ![w] = [IdleLoc EXCEPT !.op = "get_node",
                                     !.args = <<h, node_id>>,
                                     !.report = IF node_id \in databases[db].nodes
                                                THEN Some(node_id) ELSE None]]
    /\ UNCHANGED <<client, handleTables, pc, nodeTables, factTables, entityTables,
                   sessionTables, changed>>

NextHandles ==
    \/ \E h \in Handles, p \in {None} \cup {Some(d) : d \in DbPaths \ {DefaultDb}} :
         StateManager(h, p)
    \/ \E h \in Handles, id \in NodeIds :
         \/ create_node_through("w1", h, id)
         \/ get_node_through("w1", h, id)

SpecHandles == Init /\ [][NextHandles]_vars

(* C40: an operation on a handle obtained with db_path = X reads and       *)
(* writes database X only: a create_node through it leaves every other     *)
(* database as it was and stores the node in X, and a get_node through it  *)
(* returns the node exactly if X holds it; so two handles constructed with *)
(* different db_path values never see or modify each other's nodes.        *)

====
